---- MODULE Spec2Model ----
(***************************************************************************)
(* Reactive cell store of the MMKV signal adapter (signal-store.ts) over   *)
(* the asynchronous KV Client (CapacitorMMKV.getString / setString) and    *)
(* the native namespacing of CapacitorMMKV.java.                           *)
(*                                                                         *)
(* JavaScript values are tagged records; text is a sequence of one-        *)
(* character strings, so that formatting and parsing are computed.         *)
(***************************************************************************)
EXTENDS Integers, Sequences, FiniteSets, TLC

(* ------------------------------ bounds --------------------------------- *)
\* accessor calls that may create a cell
MaxCells == 2
\* caller operations (accessor, set, update, syncSignal, clearCache)
MaxCalls == 2
\* the integers converted are -MaxMagnitude..MaxMagnitude
MaxMagnitude == 6
\* subscribe calls on the subject
MaxSubs == 2
\* next/error/complete calls on the subject
MaxEvents == 2
\* enableLogging/disableLogging/setLevel/destroy calls on the routers
MaxLogOps == 2
\* log events the native side emits
MaxNative == 1
\* subscribe calls on logs$ and on the derived streams
MaxSubscribers == 2
\* derived streams created
MaxStreams == 1
\* calls, events, streams, subscribe and unsubscribe calls on one router
\* and its streams
MaxStreamOps == 5
\* calls on the logger registry and on the routers it hands out
MaxRegistryOps == 5
\* getAngularMMKVStore / initializeAngularMMKVStore calls
MaxScopeCalls == 4
\* writing calls on CapacitorMMKV.java
MaxEngineOps == 2

(* --------------------------- JavaScript values ------------------------- *)
Undefined == [t |-> "undefined"]
Null == [t |-> "null"]
Str(s) == [t |-> "str", v |-> s]
Num(n) == [t |-> "num", v |-> n]
Bool(b) == [t |-> "bool", v |-> b]
\* the result of a computation that threw
Thrown == [t |-> "thrown"]

\* ToBoolean, as used by || and ?. on the values of the model
Truthy(x) ==
  CASE x.t = "undefined" -> FALSE
    [] x.t = "null" -> FALSE
    [] x.t = "str" -> x.v # <<>>
    [] x.t = "num" -> x.v # 0
    [] x.t = "bool" -> x.v
    [] OTHER -> FALSE

\* a || b
OrElse(a, b) == IF Truthy(a) THEN a ELSE b

(* -------------------------------- text --------------------------------- *)
DigitChars == <<"0", "1", "2", "3", "4", "5", "6", "7", "8", "9">>
IsDigit(c) == \E i \in 1..10 : DigitChars[i] = c
DigitVal(c) == (CHOOSE i \in 1..10 : DigitChars[i] = c) - 1

RECURSIVE NatToText(_)
NatToText(n) ==
  IF n < 10 THEN <<DigitChars[n + 1]>>
  ELSE NatToText(n \div 10) \o <<DigitChars[(n % 10) + 1]>>

\* Number.prototype.toString for the integers of the model
NumToText(n) == IF n < 0 THEN <<"-">> \o NatToText(0 - n) ELSE NatToText(n)

\* the longest prefix of s made of digits
RECURSIVE DigitPrefix(_)
DigitPrefix(s) ==
  IF s = <<>> \/ ~IsDigit(Head(s)) THEN <<>>
  ELSE <<Head(s)>> \o DigitPrefix(Tail(s))

RECURSIVE DigitsToNat(_, _)
DigitsToNat(s, acc) ==
  IF s = <<>> THEN acc ELSE DigitsToNat(Tail(s), acc * 10 + DigitVal(Head(s)))

RECURSIVE SkipSpaces(_)
SkipSpaces(s) == IF s # <<>> /\ Head(s) = " " THEN SkipSpaces(Tail(s)) ELSE s

\* String(x) / template-literal conversion
ToText(x) ==
  CASE x.t = "str" -> x.v
    [] x.t = "num" -> NumToText(x.v)
    [] x.t = "bool" -> (IF x.v THEN <<"t", "r", "u", "e">> ELSE <<"f", "a", "l", "s", "e">>)
    [] x.t = "null" -> <<"n", "u", "l", "l">>
    [] OTHER -> <<"u", "n", "d", "e", "f", "i", "n", "e", "d">>

NaN == [t |-> "nan"]

\* parseInt as it would be if: text without a digit parsed as 0
ParseIntZero(s) ==
  LET body == SkipSpaces(s)
      neg == body # <<>> /\ Head(body) = "-"
      signed == body # <<>> /\ Head(body) \in {"-", "+"}
      rest == IF signed THEN Tail(body) ELSE body
      ds == DigitPrefix(rest)
  IN Num(IF neg THEN 0 - DigitsToNat(ds, 0) ELSE DigitsToNat(ds, 0))

\* parseInt(text, 10): leading blanks, an optional sign, then the digit
\* prefix; NaN when there is no digit
ParseInt(s) ==
  LET body == SkipSpaces(s)
      neg == body # <<>> /\ Head(body) = "-"
      signed == body # <<>> /\ Head(body) \in {"-", "+"}
      rest == IF signed THEN Tail(body) ELSE body
      ds == DigitPrefix(rest)
  IN IF ds = <<>> THEN NaN
     ELSE Num(IF neg THEN 0 - DigitsToNat(ds, 0) ELSE DigitsToNat(ds, 0))

\* parseFloat(text) on the alphabet of the model, which has no '.', 'e' or
\* 'I': the numeric prefix it reads is the one parseInt reads
ParseFloat(s) == ParseInt(s)

(* -------------------------------- JSON --------------------------------- *)
Quote == "\""
Backslash == "\\"

RECURSIVE JsonEscape(_)
JsonEscape(s) ==
  IF s = <<>> THEN <<>>
  ELSE (IF Head(s) \in {Quote, Backslash} THEN <<Backslash, Head(s)>> ELSE <<Head(s)>>)
       \o JsonEscape(Tail(s))

\* an array of integers, the structured value of the model
Arr(ns) == [t |-> "arr", v |-> ns]

\* the elements of an array literal, joined by commas
RECURSIVE JsonJoin(_)
JsonJoin(ns) ==
  IF ns = <<>> THEN <<>>
  ELSE IF Len(ns) = 1 THEN NumToText(ns[1])
  ELSE NumToText(ns[1]) \o <<",">> \o JsonJoin(Tail(ns))

\* JSON.stringify on the values of the model: scalars and arrays of integers
JsonStringify(x) ==
  CASE x.t = "str" -> Str(<<Quote>> \o JsonEscape(x.v) \o <<Quote>>)
    [] x.t = "num" -> Str(NumToText(x.v))
    [] x.t = "bool" -> Str(ToText(x))
    [] x.t = "null" -> Str(ToText(x))
    [] x.t = "arr" -> Str(<<"[">> \o JsonJoin(x.v) \o <<"]">>)
    [] OTHER -> Undefined

\* whether s is the body of a JSON string literal: no bare quote, no
\* dangling or unknown escape
RECURSIVE JsonBodyOk(_)
JsonBodyOk(s) ==
  IF s = <<>> THEN TRUE
  ELSE IF Head(s) = Quote THEN FALSE
  ELSE IF Head(s) = Backslash
       THEN Len(s) >= 2 /\ s[2] \in {Quote, Backslash} /\ JsonBodyOk(Tail(Tail(s)))
  ELSE JsonBodyOk(Tail(s))

RECURSIVE JsonUnescape(_)
JsonUnescape(s) ==
  IF s = <<>> THEN <<>>
  ELSE IF Head(s) = Backslash THEN <<s[2]>> \o JsonUnescape(Tail(Tail(s)))
  ELSE <<Head(s)>> \o JsonUnescape(Tail(s))

\* a JSON integer literal: optional '-', no leading zero
IsJsonInt(s) ==
  LET ds == IF s # <<>> /\ Head(s) = "-" THEN Tail(s) ELSE s
  IN /\ ds # <<>>
     /\ \A i \in 1..Len(ds) : IsDigit(ds[i])
     /\ (Len(ds) > 1 => ds[1] # "0")

RECURSIVE TrimRight(_)
TrimRight(s) ==
  IF s # <<>> /\ s[Len(s)] = " " THEN TrimRight(SubSeq(s, 1, Len(s) - 1)) ELSE s

\* the texts between the commas of s
RECURSIVE JsonElements(_, _)
JsonElements(s, cur) ==
  IF s = <<>> THEN <<cur>>
  ELSE IF Head(s) = "," THEN <<cur>> \o JsonElements(Tail(s), <<>>)
  ELSE JsonElements(Tail(s), Append(cur, Head(s)))

\* the array a bracketed text denotes when its elements are integer
\* literals; Thrown otherwise
JsonParseArray(inner0) ==
  LET inner == TrimRight(SkipSpaces(inner0))
      parts == JsonElements(inner, <<>>)
      lit(i) == TrimRight(SkipSpaces(parts[i]))
  IN IF inner = <<>> THEN Arr(<<>>)
     ELSE IF \A i \in 1..Len(parts) : IsJsonInt(lit(i))
          THEN Arr([i \in 1..Len(parts) |-> ParseInt(lit(i)).v])
     ELSE Thrown

\* JSON.parse on scalar documents and arrays of integers; Thrown for a
\* SyntaxError
JsonParse(s0) ==
  LET s == TrimRight(SkipSpaces(s0))
  IN CASE s = ToText(Null) -> Null
       [] s = ToText(Bool(TRUE)) -> Bool(TRUE)
       [] s = ToText(Bool(FALSE)) -> Bool(FALSE)
       [] IsJsonInt(s) -> ParseInt(s)
       [] Len(s) >= 2 /\ Head(s) = Quote /\ s[Len(s)] = Quote ->
            (LET body == SubSeq(s, 2, Len(s) - 1)
             IN IF JsonBodyOk(body) THEN Str(JsonUnescape(body)) ELSE Thrown)
       [] Len(s) >= 2 /\ Head(s) = "[" /\ s[Len(s)] = "]" ->
            JsonParseArray(SubSeq(s, 2, Len(s) - 1))
       [] OTHER -> Thrown

(* ------------------- accessors and their (de)serializers --------------- *)
PlainAccessors == {"getString", "getInt", "getBool", "getFloat", "getObject"}
DefaultAccessors == {"getStringWithDefault", "getIntWithDefault", "getBoolWithDefault",
                     "getFloatWithDefault", "getObjectWithDefault"}
Accessors == PlainAccessors \cup DefaultAccessors

TrueText == <<"t", "r", "u", "e">>
FalseText == <<"f", "a", "l", "s", "e">>

\* MMKVSignalOptions as a caller passes them; serialize and deserialize are
\* "absent" or name a caller function ("throws": a function that throws)
MkOptions(mmkvId, namespace, defaultValue, serialize, deserialize) ==
  [mmkvId |-> mmkvId, namespace |-> namespace, defaultValue |-> defaultValue,
   serialize |-> serialize, deserialize |-> deserialize, closureDefault |-> Undefined]

\* the options object each accessor hands to createMMKVSignal: the spread of
\* the caller's options, with the built-in pair written over it; the
\* WithDefault deserializers close over the defaultValue argument d
EffectiveOptions(kind, options, d) ==
  CASE kind \in {"getString", "getStringWithDefault"} -> options
    [] kind = "getInt" -> [options EXCEPT !.serialize = "optToString", !.deserialize = "int"]
    [] kind = "getBool" -> [options EXCEPT !.serialize = "optToString", !.deserialize = "bool"]
    [] kind = "getFloat" -> [options EXCEPT !.serialize = "optToString", !.deserialize = "float"]
    [] kind = "getObject" -> [options EXCEPT !.serialize = "json", !.deserialize = "json"]
    [] kind = "getIntWithDefault" ->
         [options EXCEPT !.serialize = "toString", !.deserialize = "intD", !.closureDefault = d]
    [] kind = "getBoolWithDefault" ->
         [options EXCEPT !.serialize = "toString", !.deserialize = "boolD", !.closureDefault = d]
    [] kind = "getFloatWithDefault" ->
         [options EXCEPT !.serialize = "toString", !.deserialize = "floatD", !.closureDefault = d]
    [] kind = "getObjectWithDefault" ->
         [options EXCEPT !.serialize = "json", !.deserialize = "jsonD", !.closureDefault = d]

\* the fields of an options object that loadValue and saveValue read
Captured(options) ==
  [mmkvId |-> options.mmkvId, namespace |-> options.namespace,
   serialize |-> options.serialize, deserialize |-> options.deserialize,
   closureDefault |-> options.closureDefault]

\* the seed each accessor passes as initialValue
InitialValue(kind, options, d) ==
  IF kind \in PlainAccessors THEN OrElse(options.defaultValue, Null) ELSE d

\* options.deserialize(text): the value, or Thrown
Deserialize(options, text) ==
  LET f == options.deserialize
      dflt == options.closureDefault
      int == ParseInt(text)
      float == ParseFloat(text)
      json == JsonParse(text)
  IN CASE f = "int" -> (IF int = NaN THEN Null ELSE int)
       [] f = "intD" -> (IF int = NaN THEN dflt ELSE int)
       [] f = "float" -> (IF float = NaN THEN Null ELSE float)
       [] f = "floatD" -> (IF float = NaN THEN dflt ELSE float)
       [] f = "bool" -> (IF text = TrueText THEN Bool(TRUE)
                         ELSE IF text = FalseText THEN Bool(FALSE) ELSE Null)
       [] f = "boolD" -> (IF text = TrueText THEN Bool(TRUE)
                          ELSE IF text = FalseText THEN Bool(FALSE) ELSE dflt)
       [] f = "json" -> (IF json = Thrown THEN Null ELSE json)
       [] f = "jsonD" -> (IF json = Thrown THEN dflt ELSE json)
       [] OTHER -> Thrown

\* the serializers as they would be if: value ? value.toString() : ''
SerializeTruthy(options, value) ==
  LET f == options.serialize
  IN CASE f \in {"optToString", "toString"} ->
            (IF Truthy(value) THEN Str(ToText(value)) ELSE Str(<<>>))
       [] f = "json" -> JsonStringify(value)
       [] OTHER -> Thrown

\* options.serialize(value): a Str, or Thrown
\*   optToString: value?.toString() || ''       toString: value.toString()
Serialize(options, value) ==
  LET f == options.serialize
  IN CASE f = "optToString" ->
            (IF value.t \in {"null", "undefined"} THEN Str(<<>>)
             ELSE OrElse(Str(ToText(value)), Str(<<>>)))
       [] f = "toString" ->
            (IF value.t \in {"null", "undefined"} THEN Thrown ELSE Str(ToText(value)))
       [] f = "json" -> JsonStringify(value)
       [] OTHER -> Thrown

(* ------------------------- native key-value engine --------------------- *)
DefaultInstance == [named |-> FALSE, id |-> <<>>]

\* getMMKVInstance as it would be if: every id gave the default instance
getMMKVInstanceOne(mmkvId) == [named |-> FALSE, id |-> <<>>]

\* CapacitorMMKV.getMMKVInstance: null or empty id is the default instance
getMMKVInstance(mmkvId) ==
  IF mmkvId.t # "str" \/ mmkvId.v = <<>> THEN DefaultInstance
  ELSE [named |-> TRUE, id |-> mmkvId.v]

\* getNamespacedKey as it would be if: the ":" were left out
getNamespacedKeyNoSeparator(key, namespace) ==
  IF namespace.t # "str" \/ namespace.v = <<>> THEN key
  ELSE namespace.v \o key

\* CapacitorMMKV.getNamespacedKey
getNamespacedKey(key, namespace) ==
  IF namespace.t # "str" \/ namespace.v = <<>> THEN key
  ELSE namespace.v \o <<":">> \o key

\* the storage location a (key, mmkvId, namespace) call addresses
Loc(key, mmkvId, namespace) ==
  [inst |-> getMMKVInstance(mmkvId), skey |-> getNamespacedKey(key, namespace)]

(* ------------------------------ cell store ----------------------------- *)
DefaultText == <<"d", "e", "f", "a", "u", "l", "t">>

\* getCacheKey as it would be if: the key also carries the accessor's deserializer
getCacheKeyTyped(key, options) ==
  ToText(OrElse(options.mmkvId, Str(DefaultText))) \o <<":">>
    \o ToText(OrElse(options.namespace, Str(<<>>))) \o <<":">> \o key
    \o <<":", options.deserialize>>

\* MMKVSignalStoreImpl.getCacheKey
getCacheKey(key, options) ==
  LET mmkvId == OrElse(options.mmkvId, Str(DefaultText))
      namespace == OrElse(options.namespace, Str(<<>>))
  IN ToText(mmkvId) \o <<":">> \o ToText(namespace) \o <<":">> \o key

(* ------------------------------- inputs -------------------------------- *)
Keys == {<<"k">>}
MmkvIds == {Undefined, Str(DefaultText)}
Namespaces == {Undefined, Str(<<"n">>)}
\* the (key, mmkvId, namespace) triples callers address: at most one of
\* mmkvId and namespace is given
Triples == {x \in Keys \X MmkvIds \X Namespaces : x[2] = Undefined \/ x[3] = Undefined}
\* the accessors callers use on the store
StoreAccessors == {"getString", "getInt", "getStringWithDefault", "getIntWithDefault"}
\* options.defaultValue of the plain accessors
OptionDefaults == {Undefined}
\* caller-supplied options.serialize / options.deserialize: none, or a
\* pair of functions that throw
CustomFns == {"absent", "throws"}
\* the defaultValue argument of the WithDefault accessors, by type
DefaultArgs(kind) ==
  CASE kind = "getStringWithDefault" -> {Str(<<"X">>)}
    [] kind \in {"getIntWithDefault", "getFloatWithDefault"} -> {Num(5)}
    [] kind = "getBoolWithDefault" -> {Bool(TRUE)}
    [] kind = "getObjectWithDefault" -> {Str(<<"X">>)}
    [] OTHER -> {Undefined}
\* values a caller writes to a cell
SetValues == {Null, Num(7), Str(<<"x">>)}
\* text another writer may have left in the store
StoredTexts == {<<"4", "2">>, <<"a", "b", "c">>}
UpdateFns == {"toggle"}
\* updateFn: x => x === null ? 7 : null
ApplyFn(f, x) == IF x = Null THEN Num(7) ELSE Null

Locations == {Loc(x[1], x[2], x[3]) : x \in Triples}

(* -------------------------------- state -------------------------------- *)
VARIABLES
  kv,           \* native engine: Location -> Null | Str(text)
  signalCache,  \* MMKVSignalStoreImpl.signalCache: entries [ck, cell]
  cells,        \* the signals created so far: [val, key, options]
  reads,        \* CapacitorMMKV.getString calls in flight (written: history)
  writes,       \* CapacitorMMKV.setString calls in flight
  nextId,       \* id of the next KV Client call
  nCalls,       \* caller operations so far
  escaped,      \* an exception or rejection left the store's code
  reqLog,       \* the accessor requests served since the last clearCache
  callLimit,    \* how many caller operations a behaviour explores
  conv,         \* the last conversion applied: its inputs and its result
  observers,     \* SimpleSubject.observers: the observer objects, in array order
  isCompleted,   \* SimpleSubject.isCompleted
  hasError,      \* SimpleSubject.hasError
  errorValue,    \* SimpleSubject.errorValue
  subscriptions, \* the subscribe calls so far, each with the handle it returned
  delivered,     \* history: every observer callback invoked, in order
  nEvents,       \* next/error/complete calls made so far
  raised,        \* the last call on the subject threw to its caller
  nativeLevel,   \* CapacitorMMKV.java currentLogLevel (one per process)
  listeners,     \* the 'mmkvLog' callbacks registered: the router of each
  routers,       \* the AngularMMKVLogger instances constructed so far
  lsubs,         \* the subscribe calls on logs$ and derived streams so far
  streams,       \* the derived streams created so far
  lcalls,        \* the router calls suspended at an await
  appLoggers,    \* logger.ts appLoggers: appId -> router (0: no entry)
  defaultAppId,  \* logger.ts defaultAppId
  handed,        \* what the last registry call returned or removed
  nLogOps,       \* router and registry calls made so far
  nNative,       \* native log events emitted so far
  angularSignalStore, \* index.ts angularSignalStore (0: null)
  scopedStoreCache,   \* index.ts scopedStoreCache: entries [ck, store]
  stores,        \* the store objects constructed so far
  gotStore,      \* the getAngularMMKVStore calls so far and what each returned
  mmkv,          \* CapacitorMMKV.java: the entries of each MMKV instance, in order
  under,         \* history: the (instance, namespace, key) callers stored and not removed
  nativeOut      \* the last call on CapacitorMMKV.java and what it returned

storeVars == <<kv, signalCache, cells, reads, writes, nextId, nCalls, escaped, reqLog>>
\* what no operation of the store touches
subjectVars ==
  <<observers, isCompleted, hasError, errorValue, subscriptions, delivered, nEvents, raised>>
loggerVars ==
  <<nativeLevel, listeners, routers, lsubs, streams, lcalls, appLoggers, defaultAppId,
    handed, nLogOps, nNative>>
scopeVars == <<angularSignalStore, scopedStoreCache, stores, gotStore>>
engineVars == <<mmkv, under, nativeOut>>
storeFrame == <<callLimit, conv, subjectVars, loggerVars, scopeVars, engineVars>>
\* what no conversion touches
convFrame == <<storeVars, callLimit, subjectVars, loggerVars, scopeVars, engineVars>>
\* what no operation of the subject touches
subjectFrame == <<storeVars, callLimit, conv, loggerVars, scopeVars, engineVars>>
\* what no operation of the routers and their registry touches
loggerFrame == <<storeVars, callLimit, conv, subjectVars, scopeVars, engineVars>>
\* what getAngularMMKVStore and initializeAngularMMKVStore leave alone
scopeFrame == <<storeVars, callLimit, conv, subjectVars, loggerVars, engineVars>>
\* what no call on CapacitorMMKV.java touches
engineFrame == <<storeVars, callLimit, conv, subjectVars, loggerVars, scopeVars>>
vars == <<storeVars, storeFrame>>

EmptyKv == [l \in Locations |-> Null]

\* the store and the native engine after construction
StoreInit ==
  /\ kv \in {EmptyKv} \cup {[l \in Locations |-> Str(t)] : t \in StoredTexts}
  /\ signalCache = {}
  /\ cells = <<>>
  /\ reads = {}
  /\ writes = {}
  /\ nextId = 1
  /\ nCalls = 0
  /\ escaped = FALSE
  /\ reqLog = {}

\* no conversion applied yet
ConvIdle == conv = [op |-> "none"]

\* a SimpleSubject after construction
SubjectInit ==
  /\ observers = <<>>
  /\ isCompleted = FALSE
  /\ hasError = FALSE
  /\ errorValue = Undefined
  /\ subscriptions = <<>>
  /\ delivered = <<>>
  /\ nEvents = 0
  /\ raised = FALSE

\* no registry call made yet
NothingHanded ==
  [n |-> 0, op |-> "none", app |-> "", router |-> 0, created |-> FALSE, before |-> 0,
   last |-> [a \in {"default", "app1"} |-> 0]]

\* the native log state after load(), no router constructed, empty registry
LoggerInit ==
  /\ nativeLevel = 0
  /\ listeners = <<>>
  /\ routers = <<>>
  /\ lsubs = <<>>
  /\ streams = <<>>
  /\ lcalls = <<>>
  /\ appLoggers = [a \in {"default", "app1"} |-> 0]
  /\ defaultAppId = "default"
  /\ handed = NothingHanded
  /\ nLogOps = 0
  /\ nNative = 0

\* index.ts at module load
ScopeInit ==
  /\ angularSignalStore = 0
  /\ scopedStoreCache = {}
  /\ stores = <<>>
  /\ gotStore = [n |-> 0, threw |-> FALSE, served |-> {}]

\* the inputs of the calls on CapacitorMMKV.java: a null or empty mmkvId or
\* namespace, and raw keys with and without the separator
EngineIds == {Undefined, Str(<<>>), Str(<<"a">>)}
EngineNamespaces == {Undefined, Str(<<>>), Str(<<"n">>), Str(<<"m">>)}
EngineKeys == {<<"k">>, <<"n", ":", "k">>}
EngineValues == {<<"v">>, <<"w">>}
EngineInstances == {getMMKVInstance(i) : i \in EngineIds}
\* the (mmkvId, namespace) pairs of the calls: the empty string is passed for
\* both or for neither
EngineTargets ==
  {t \in EngineIds \X EngineNamespaces : (t[1] = Str(<<>>)) <=> (t[2] = Str(<<>>))}

\* no call made yet
NoCall ==
  [n |-> 0, op |-> "none", result |-> Undefined, mmkvId |-> Undefined,
   namespace |-> Undefined, key |-> <<>>, value |-> <<>>]

\* every MMKV instance empty
EngineInit ==
  /\ mmkv = [i \in EngineInstances |-> <<>>]
  /\ under = {}
  /\ nativeOut = NoCall

Init ==
  /\ StoreInit
  /\ callLimit = MaxCalls
  /\ ConvIdle
  /\ SubjectInit
  /\ LoggerInit
  /\ ScopeInit
  /\ EngineInit

(* ------------------------- loadValue / saveValue ----------------------- *)
\* MMKVSignalStoreImpl.loadValue once getString has settled: rejected, or
\* resolved with stored (Null | Str); raised = the promise rejects
loadValue(options, rejected, stored) ==
  LET attempt ==
        IF rejected THEN Thrown
        ELSE IF stored = Null THEN Null
        ELSE IF options.deserialize # "absent" THEN Deserialize(options, stored.v)
        ELSE stored
  IN IF attempt = Thrown THEN [value |-> Null, raised |-> FALSE]
     ELSE [value |-> attempt, raised |-> FALSE]

\* saveValue as it would be if: no try/catch around the serializer
saveValueNoCatch(value, options) ==
  LET text ==
        IF options.serialize # "absent" THEN Serialize(options, value)
        ELSE IF value.t = "str" THEN value
        ELSE JsonStringify(value)
  IN IF text = Thrown THEN [send |-> FALSE, text |-> Str(<<>>), raised |-> TRUE]
     ELSE [send |-> TRUE, text |-> text, raised |-> FALSE]

\* MMKVSignalStoreImpl.saveValue up to its await: the text handed to
\* setString, or nothing when serializing threw
saveValue(value, options) ==
  LET text ==
        IF options.serialize # "absent" THEN Serialize(options, value)
        ELSE IF value.t = "str" THEN value
        ELSE JsonStringify(value)
  IN IF text = Thrown THEN [send |-> FALSE, text |-> Str(<<>>), raised |-> FALSE]
     ELSE [send |-> TRUE, text |-> text, raised |-> FALSE]

\* saveValue after its await: whether a rejected setString leaves saveValue
\* as a rejection
saveValueSettled(rejected) == FALSE

\* overriddenSet as it would be if: saveValue is called before originalSet
overriddenSetSaveFirst(current, value, options) ==
  [val |-> value, visible |-> current, out |-> saveValue(value, options)]

\* the overridden signal.set: originalSet, then saveValue; visible is what
\* signal() returns when saveValue is entered
overriddenSet(current, value, options) ==
  [val |-> value, visible |-> value, out |-> saveValue(value, options)]

\* appliesLoaded as it would be if: the null check is missing
appliesAlways(loadedValue) == TRUE

\* the condition under which a hydrate or syncSignal applies what it loaded
appliesLoaded(loadedValue) == loadedValue # Null

\* signalCacheHas as it would be if: the cache is never consulted
signalCacheNever(cache, cacheKey) == FALSE

\* signalCache.has(cacheKey)
signalCacheHas(cache, cacheKey) == \E e \in cache : e.ck = cacheKey

\* signalCache.get(cacheKey): the cell index, 0 when undefined
signalCacheGet(cache, cacheKey) ==
  IF \E e \in cache : e.ck = cacheKey
  THEN (CHOOSE e \in cache : e.ck = cacheKey).cell
  ELSE 0

(* ------------------------------- actions ------------------------------- *)
\* WriteCall as it would be if: the namespace is not passed on
WriteCallNoNamespace(id, c, cellRec, set) ==
  [id |-> id, cell |-> c, key |-> cellRec.key, mmkvId |-> cellRec.options.mmkvId,
   namespace |-> Undefined, text |-> set.out.text.v, visible |-> set.visible]

\* the setString call a run of the overridden set on cell c puts in flight
WriteCall(id, c, cellRec, set) ==
  [id |-> id, cell |-> c, key |-> cellRec.key, mmkvId |-> cellRec.options.mmkvId,
   namespace |-> cellRec.options.namespace, text |-> set.out.text.v,
   visible |-> set.visible]

\* the getString call of loadValue(key, options) for cell c
ReadCall(id, c, key, options, origin) ==
  [id |-> id, cell |-> c, key |-> key, options |-> Captured(options),
   origin |-> origin, stage |-> "sent", stored |-> Null, written |-> FALSE]

\* history: the reads in flight for cell c learn that a caller wrote the cell
\* after they were issued
MarkWritten(rs, c) ==
  {IF r.cell = c THEN [r EXCEPT !.written = TRUE] ELSE r : r \in rs}

\* cell c of cs runs its overridden set(value): the frame shared by every
\* caller of signal.set
RunSet(cs, c, value) ==
  LET set == overriddenSet(cs[c].val, value, cs[c].options)
      issued == IF set.out.send THEN {WriteCall(nextId, c, cs[c], set)} ELSE {}
  IN /\ cells' = [cs EXCEPT ![c].val = set.val]
     /\ writes' = writes \cup issued
     /\ nextId' = nextId + Cardinality(issued)
     /\ escaped' = (escaped \/ set.out.raised)

\* createMMKVSignal behind one of the ten accessors; getStringWithDefault
\* then re-assigns its default when the cell reads null
Accessor(kind, key, options, d) ==
  LET eff == EffectiveOptions(kind, options, d)
      cacheKey == getCacheKey(key, eff)
      hit == signalCacheHas(signalCache, cacheKey)
      c == IF hit THEN signalCacheGet(signalCache, cacheKey) ELSE Len(cells) + 1
      cs == IF hit THEN cells
            ELSE Append(cells, [val |-> InitialValue(kind, options, d), key |-> key,
                                options |-> Captured(eff)])
      entry == [key |-> key, mmkvId |-> options.mmkvId, namespace |-> options.namespace,
                cell |-> c, created |-> ~hit]
  IN /\ nCalls < callLimit
     /\ hit \/ Len(cells) < MaxCells
     /\ nCalls' = nCalls + 1
     /\ reqLog' = reqLog \cup {entry}
     /\ signalCache' = IF hit THEN signalCache
                       ELSE signalCache \cup {[ck |-> cacheKey, cell |-> c]}
     /\ IF kind = "getStringWithDefault" /\ cs[c].val = Null
        THEN /\ RunSet(cs, c, d)
             /\ reads' = reads  \* a cached cell: no hydrate
        ELSE /\ cells' = cs
             /\ reads' = IF hit THEN reads
                         ELSE reads \cup {ReadCall(nextId, c, key, eff, "hydrate")}
             /\ nextId' = IF hit THEN nextId ELSE nextId + 1
             /\ UNCHANGED <<writes, escaped>>
     /\ UNCHANGED kv

\* signal.set(value) by a caller holding the cell
Set(c, value) ==
  /\ nCalls < callLimit
  /\ c \in 1..Len(cells)
  /\ nCalls' = nCalls + 1
  /\ RunSet(cells, c, value)
  /\ reads' = MarkWritten(reads, c)
  /\ UNCHANGED <<kv, signalCache, reqLog>>

\* signal.update(updateFn)
Update(c, f) ==
  /\ nCalls < callLimit
  /\ c \in 1..Len(cells)
  /\ nCalls' = nCalls + 1
  /\ RunSet(cells, c, ApplyFn(f, cells[c].val))
  /\ reads' = MarkWritten(reads, c)
  /\ UNCHANGED <<kv, signalCache, reqLog>>

\* clearCache as it would be if: the map is left as it is
ClearCacheKeeps ==
  /\ nCalls < callLimit
  /\ nCalls' = nCalls + 1
  /\ reqLog' = {}
  /\ UNCHANGED <<kv, signalCache, cells, reads, writes, nextId, escaped>>

\* clearCache()
ClearCache ==
  /\ nCalls < callLimit
  /\ nCalls' = nCalls + 1
  /\ signalCache' = {}
  /\ reqLog' = {}
  /\ UNCHANGED <<kv, cells, reads, writes, nextId, escaped>>

\* syncSignal(key, options) up to its await
SyncSignal(key, options) ==
  LET c == signalCacheGet(signalCache, getCacheKey(key, options))
  IN /\ nCalls < callLimit
     /\ nCalls' = nCalls + 1
     /\ reads' = IF c # 0 THEN reads \cup {ReadCall(nextId, c, key, options, "sync")}
                 ELSE reads
     /\ nextId' = IF c # 0 THEN nextId + 1 ELSE nextId
     /\ UNCHANGED <<kv, signalCache, cells, writes, escaped, reqLog>>

\* the native side serves a getString call (CapacitorMMKV.getString) and
\* resolves it with the stored text
NativeGet(r) ==
  /\ r \in reads
  /\ r.stage = "sent"
  /\ reads' = (reads \ {r}) \cup
       {[r EXCEPT !.stage = "resolved",
                  !.stored = kv[Loc(r.key, r.options.mmkvId, r.options.namespace)]]}
  /\ UNCHANGED <<kv, signalCache, cells, writes, nextId, nCalls, escaped, reqLog>>

\* the continuation of a settled getString: loadValue returns and the
\* hydrate's then-callback, or syncSignal's tail, applies the value; a call
\* the native side has not served is one that gets rejected
Loaded(r) ==
  LET res == loadValue(r.options, r.stage = "sent", r.stored)
  IN /\ r \in reads
     /\ reads' = reads \ {r}
     /\ IF ~res.raised /\ appliesLoaded(res.value)
        THEN RunSet(cells, r.cell, res.value)
        ELSE /\ escaped' = (escaped \/ res.raised)
             /\ UNCHANGED <<cells, writes, nextId>>
     /\ UNCHANGED <<kv, signalCache, nCalls, reqLog>>

\* the native side serves a setString call (CapacitorMMKV.setString) and
\* saveValue resumes, or the call is rejected and saveValue's catch runs
NativeSet(w, ok) ==
  /\ w \in writes
  /\ writes' = writes \ {w}
  /\ kv' = IF ok THEN [kv EXCEPT ![Loc(w.key, w.mmkvId, w.namespace)] = Str(w.text)]
           ELSE kv
  /\ escaped' = (escaped \/ (~ok /\ saveValueSettled(~ok)))
  /\ UNCHANGED <<signalCache, cells, reads, nextId, nCalls, reqLog>>

AccessorCalls ==
  {<<x[1], x[2][1], MkOptions(x[2][2], x[2][3], x[3], x[4], x[4]), x[5]>> :
     x \in {y \in StoreAccessors \X Triples \X OptionDefaults \X CustomFns
                   \X (UNION {DefaultArgs(k) : k \in Accessors}) :
              y[5] \in DefaultArgs(y[1])}}

SyncCalls ==
  {<<x[1][1], MkOptions(x[1][2], x[1][3], Undefined, x[2], x[2])>> :
     x \in Triples \X CustomFns}

Next ==
  \/ \E a \in AccessorCalls : Accessor(a[1], a[2], a[3], a[4]) /\ UNCHANGED storeFrame
  \/ \E c \in 1..MaxCells, v \in SetValues : Set(c, v) /\ UNCHANGED storeFrame
  \/ \E c \in 1..MaxCells, f \in UpdateFns : Update(c, f) /\ UNCHANGED storeFrame
  \/ ClearCache /\ UNCHANGED storeFrame
  \/ \E s \in SyncCalls : SyncSignal(s[1], s[2]) /\ UNCHANGED storeFrame
  \/ \E r \in reads : NativeGet(r) /\ UNCHANGED storeFrame
  \/ \E r \in reads : Loaded(r) /\ UNCHANGED storeFrame
  \/ \E w \in writes, ok \in BOOLEAN : NativeSet(w, ok) /\ UNCHANGED storeFrame

Spec == Init /\ [][Next]_vars

(* ---------------- the store across a clearCache: longer runs ------------ *)
\* the accessor calls of these runs: one plain and one WithDefault accessor,
\* without caller-supplied serialize/deserialize
PlainOptionCalls ==
  {a \in AccessorCalls :
     a[1] \in {"getString", "getIntWithDefault"} /\ a[3].serialize = "absent"}

ClearInit ==
  /\ StoreInit
  /\ callLimit = MaxCalls + 1
  /\ ConvIdle
  /\ SubjectInit
  /\ LoggerInit
  /\ ScopeInit
  /\ EngineInit

ClearNext ==
  \/ \E a \in PlainOptionCalls : Accessor(a[1], a[2], a[3], a[4]) /\ UNCHANGED storeFrame
  \/ ClearCache /\ UNCHANGED storeFrame
  \/ \E r \in reads : NativeGet(r) /\ UNCHANGED storeFrame
  \/ \E r \in reads : Loaded(r) /\ UNCHANGED storeFrame
  \/ \E w \in writes, ok \in BOOLEAN : NativeSet(w, ok) /\ UNCHANGED storeFrame

ClearSpec == ClearInit /\ [][ClearNext]_vars

(* ------------- the accessors' conversions, one at a time --------------- *)
IntValues == {Num(n) : n \in (0 - MaxMagnitude)..MaxMagnitude}
BoolValues == {Bool(TRUE), Bool(FALSE)}
TextValues ==
  {Str(<<>>), Str(<<"a">>), Str(<<" ">>), Str(<<Quote>>), Str(<<Backslash, "n">>),
   Str(<<"4", "2">>), Str(TrueText), Str(<<"n", "u", "l", "l">>), Str(<<"[", "1", "]">>)}
ArrValues ==
  {Arr(<<>>)} \cup {Arr(<<n>>) : n \in 0..MaxMagnitude}
    \cup {Arr(<<n, 0 - n>>) : n \in 0..MaxMagnitude}
\* stored texts a typed accessor may find
StoredSamples ==
  {<<>>, TrueText, FalseText, <<"T", "R", "U", "E">>, <<"1">>, <<"0">>, <<"a", "b", "c">>,
   TrueText \o <<" ">>, <<"4", "2">>, <<"4", "2", "x">>, <<"{">>, <<"[", "1", ",", "]">>}

IntKinds == {"getInt", "getIntWithDefault"}
BoolKinds == {"getBool", "getBoolWithDefault"}
JsonKinds == {"getObject", "getObjectWithDefault"}
TextKinds == {"getString", "getStringWithDefault"}

\* the options createMMKVSignal captures for an accessor called with no
\* options of the caller's, and the options.defaultValue given
KindOptions(kind, defaultValue, d) ==
  EffectiveOptions(kind, MkOptions(Undefined, Undefined, defaultValue, "absent", "absent"), d)

\* value is written to a cell of the accessor and the text that saveValue
\* hands to setString is read back by loadValue
RoundTrip(kind, d, value) ==
  LET eff == Captured(KindOptions(kind, Undefined, d))
      out == saveValue(value, eff)
      back == IF out.send THEN loadValue(eff, FALSE, out.text).value ELSE Thrown
  IN /\ conv' = [op |-> "roundTrip", kind |-> kind, d |-> d, value |-> value,
                 text |-> out.text.v, back |-> back]
     /\ UNCHANGED convFrame

\* loadValue of the accessor finds text in the store
LoadText(kind, d, text) ==
  LET eff == Captured(KindOptions(kind, Undefined, d))
  IN /\ conv' = [op |-> "load", kind |-> kind, d |-> d, text |-> text,
                 value |-> loadValue(eff, FALSE, Str(text)).value]
     /\ UNCHANGED convFrame

\* a plain accessor computes the seed of a new cell from options.defaultValue
Seed(kind, defaultValue) ==
  /\ conv' = [op |-> "seed", kind |-> kind, defaultValue |-> defaultValue,
              value |-> InitialValue(kind, KindOptions(kind, defaultValue, Undefined),
                                     Undefined)]
  /\ UNCHANGED convFrame

RoundTrips ==
  \/ \E k \in IntKinds, v \in IntValues : \E d \in DefaultArgs(k) : RoundTrip(k, d, v)
  \/ \E k \in BoolKinds, v \in BoolValues : \E d \in DefaultArgs(k) : RoundTrip(k, d, v)
  \/ \E k \in TextKinds, v \in TextValues : \E d \in DefaultArgs(k) : RoundTrip(k, d, v)
  \/ \E k \in JsonKinds, v \in IntValues : \E d \in DefaultArgs(k) : RoundTrip(k, d, v)
  \/ \E k \in JsonKinds, v \in BoolValues : \E d \in DefaultArgs(k) : RoundTrip(k, d, v)
  \/ \E k \in JsonKinds, v \in TextValues : \E d \in DefaultArgs(k) : RoundTrip(k, d, v)
  \/ \E k \in JsonKinds, v \in ArrValues : \E d \in DefaultArgs(k) : RoundTrip(k, d, v)
  \/ \E k \in JsonKinds : \E d \in DefaultArgs(k) : RoundTrip(k, d, Null)

Loads ==
  \E k \in IntKinds \cup BoolKinds \cup JsonKinds, text \in StoredSamples :
    \E d \in DefaultArgs(k) : LoadText(k, d, text)

Seeds ==
  \/ \E k \in PlainAccessors, v \in {Undefined, Null} : Seed(k, v)
  \/ \E k \in PlainAccessors, v \in IntValues : Seed(k, v)
  \/ \E k \in PlainAccessors, v \in BoolValues : Seed(k, v)
  \/ \E k \in PlainAccessors, v \in TextValues : Seed(k, v)

\* a store nobody calls, over an empty engine
StoreUnused ==
  /\ kv = EmptyKv
  /\ signalCache = {}
  /\ cells = <<>>
  /\ reads = {}
  /\ writes = {}
  /\ nextId = 1
  /\ nCalls = 0
  /\ escaped = FALSE
  /\ reqLog = {}
  /\ callLimit = 0

ConvInit ==
  /\ StoreUnused
  /\ ConvIdle
  /\ SubjectInit
  /\ LoggerInit
  /\ ScopeInit
  /\ EngineInit

ConvNext ==
  \/ RoundTrips
  \/ Loads
  \/ Seeds

ConvSpec == ConvInit /\ [][ConvNext]_vars

(* ----------------------------- SimpleSubject --------------------------- *)
\* the observer objects callers subscribe; each callback is absent, returns
\* ("ok") or throws
ObserverPool == {"full", "nextOnly", "terminalOnly", "redirects", "throwsTwice"}

Callbacks(o) ==
  CASE o = "full" -> [next |-> "ok", error |-> "ok", complete |-> "ok"]
    [] o = "nextOnly" -> [next |-> "ok", error |-> "absent", complete |-> "absent"]
    [] o = "terminalOnly" -> [next |-> "absent", error |-> "ok", complete |-> "ok"]
    [] o = "redirects" -> [next |-> "throws", error |-> "ok", complete |-> "throws"]
    [] o = "throwsTwice" -> [next |-> "throws", error |-> "throws", complete |-> "ok"]
    [] o \in {"dropsSelf", "dropsFirst", "dropsLast"} ->
         [next |-> "ok", error |-> "absent", complete |-> "absent"]

NextValues == {"a", "b"}
ErrorValues == {"e"}
\* what a throwing next callback throws
Exception == "x"

\* one invocation of a callback of observer o, by the n-th next/error/complete
\* call on the subject (0: by a subscribe call)
Call(o, cb, arg, n) == [to |-> o, cb |-> cb, arg |-> arg, n |-> n]

\* the forEach of SimpleSubject.next over the array os: the callbacks
\* invoked, and whether an exception left the loop
RECURSIVE DeliverNext(_, _, _)
DeliverNext(os, value, n) ==
  IF os = <<>> THEN [calls |-> <<>>, raised |-> FALSE]
  ELSE LET o == Head(os)
           cb == Callbacks(o)
           rest == DeliverNext(Tail(os), value, n)
           called == <<Call(o, "next", value, n)>>
           redirected == <<Call(o, "error", Exception, n)>>
       IN CASE cb.next = "absent" -> rest
            [] cb.next = "ok" -> [rest EXCEPT !.calls = called \o @]
            [] cb.next = "throws" /\ cb.error = "absent" ->
                 [rest EXCEPT !.calls = called \o @]
            [] cb.next = "throws" /\ cb.error = "ok" ->
                 [rest EXCEPT !.calls = called \o redirected \o @]
            [] cb.next = "throws" /\ cb.error = "throws" ->
                 [calls |-> called \o redirected, raised |-> TRUE]

\* the forEach of SimpleSubject.error: every error callback, each in its own
\* try/catch
RECURSIVE DeliverError(_, _, _)
DeliverError(os, e, n) ==
  IF os = <<>> THEN <<>>
  ELSE (IF Callbacks(Head(os)).error # "absent"
        THEN <<Call(Head(os), "error", e, n)>> ELSE <<>>)
       \o DeliverError(Tail(os), e, n)

\* the forEach of SimpleSubject.complete
RECURSIVE DeliverComplete(_, _)
DeliverComplete(os, n) ==
  IF os = <<>> THEN <<>>
  ELSE (IF Callbacks(Head(os)).complete # "absent"
        THEN <<Call(Head(os), "complete", Undefined, n)>> ELSE <<>>)
       \o DeliverComplete(Tail(os), n)

\* the stop test as it would be if: only isCompleted were looked at
isStoppedCompletedOnly(completed, errored) == completed

\* this.isCompleted || this.hasError
isStopped(completed, errored) == completed \/ errored

\* unsubscribe as it would be if: isUnsubscribed were not looked at
unsubscribeAlways(isUnsubscribed) == TRUE

\* whether SimpleSubscription.unsubscribe runs its unsubscribeFn
unsubscribeRuns(isUnsubscribed) == ~isUnsubscribed

\* Array.prototype.indexOf, 1-based; 0 when absent
IndexOf(seq, x) ==
  IF \E i \in 1..Len(seq) : seq[i] = x
  THEN CHOOSE i \in 1..Len(seq) : seq[i] = x /\ \A j \in 1..(i - 1) : seq[j] # x
  ELSE 0

\* the unsubscribe function as it would be if: it removed nothing
RemoveNothing(seq, x) == seq

\* the unsubscribe function a registered observer gets: indexOf, splice
RemoveObserver(seq, x) ==
  LET i == IndexOf(seq, x)
  IN IF i = 0 THEN seq ELSE SubSeq(seq, 1, i - 1) \o SubSeq(seq, i + 1, Len(seq))

Registered(o) == \E i \in 1..Len(observers) : observers[i] = o

\* subject.subscribe(o): an observer object is subscribed while it is not
\* registered
Subscribe(o) ==
  LET cb == Callbacks(o)
      replayError == hasError /\ cb.error # "absent"
      replayComplete == ~replayError /\ isCompleted /\ cb.complete # "absent"
      threw == \/ replayError /\ cb.error = "throws"
               \/ replayComplete /\ cb.complete = "throws"
      pushed == ~replayError /\ ~replayComplete
  IN /\ Len(subscriptions) < MaxSubs
     /\ ~Registered(o)
     /\ delivered' =
          IF replayError THEN Append(delivered, Call(o, "error", errorValue, 0))
          ELSE IF replayComplete THEN Append(delivered, Call(o, "complete", Undefined, 0))
          ELSE delivered
     /\ observers' = IF pushed THEN Append(observers, o) ELSE observers
     /\ raised' = threw
     /\ subscriptions' =
          Append(subscriptions,
                 [observer |-> o, isUnsubscribed |-> FALSE, registered |-> pushed,
                  returned |-> ~threw])
     /\ UNCHANGED <<isCompleted, hasError, errorValue, nEvents>>
     /\ UNCHANGED subjectFrame

\* subscription.unsubscribe() on the handle the s-th subscribe call returned
Unsubscribe(s) ==
  /\ s \in 1..Len(subscriptions)
  /\ subscriptions[s].returned
  /\ subscriptions' = [subscriptions EXCEPT ![s].isUnsubscribed = TRUE]
  /\ observers' =
       IF unsubscribeRuns(subscriptions[s].isUnsubscribed) /\ subscriptions[s].registered
       THEN RemoveObserver(observers, subscriptions[s].observer)
       ELSE observers
  /\ raised' = FALSE
  /\ UNCHANGED <<isCompleted, hasError, errorValue, delivered, nEvents>>
  /\ UNCHANGED subjectFrame

\* subject.next(value)
SubjectNext(value) ==
  LET d == DeliverNext(observers, value, nEvents + 1)
  IN /\ nEvents < MaxEvents
     /\ nEvents' = nEvents + 1
     /\ IF isStopped(isCompleted, hasError)
        THEN /\ raised' = FALSE
             /\ UNCHANGED delivered
        ELSE /\ delivered' = delivered \o d.calls
             /\ raised' = d.raised
     /\ UNCHANGED <<observers, isCompleted, hasError, errorValue, subscriptions>>
     /\ UNCHANGED subjectFrame

\* subject.error(e)
SubjectError(e) ==
  /\ nEvents < MaxEvents
  /\ nEvents' = nEvents + 1
  /\ raised' = FALSE
  /\ IF isStopped(isCompleted, hasError)
     THEN UNCHANGED <<observers, hasError, errorValue, delivered>>
     ELSE /\ hasError' = TRUE
          /\ errorValue' = e
          /\ delivered' = delivered \o DeliverError(observers, e, nEvents + 1)
          /\ observers' = <<>>
  /\ UNCHANGED <<isCompleted, subscriptions>>
  /\ UNCHANGED subjectFrame

\* subject.complete()
SubjectComplete ==
  /\ nEvents < MaxEvents
  /\ nEvents' = nEvents + 1
  /\ raised' = FALSE
  /\ IF isStopped(isCompleted, hasError)
     THEN UNCHANGED <<observers, isCompleted, delivered>>
     ELSE /\ isCompleted' = TRUE
          /\ delivered' = delivered \o DeliverComplete(observers, nEvents + 1)
          /\ observers' = <<>>
  /\ UNCHANGED <<hasError, errorValue, subscriptions>>
  /\ UNCHANGED subjectFrame

SubjectSpecInit ==
  /\ StoreUnused
  /\ ConvIdle
  /\ SubjectInit
  /\ LoggerInit
  /\ ScopeInit
  /\ EngineInit

SubjectStep ==
  \/ \E o \in ObserverPool : Subscribe(o)
  \/ \E s \in 1..MaxSubs : Unsubscribe(s)
  \/ \E v \in NextValues : SubjectNext(v)
  \/ \E e \in ErrorValues : SubjectError(e)
  \/ SubjectComplete

SubjectSpec == SubjectSpecInit /\ [][SubjectStep]_vars

(* ---------------- CapacitorMMKV.java: keys and namespaces --------------- *)
\* MMKV.allKeys()
allKeys(entries) == [i \in DOMAIN entries |-> entries[i].key]

\* MMKV.containsKey(k)
containsKey(entries, k) == \E i \in DOMAIN entries : entries[i].key = k

\* MMKV.encode(k, v)
encode(entries, k, v) ==
  IF containsKey(entries, k)
  THEN [i \in DOMAIN entries |->
          IF entries[i].key = k THEN [key |-> k, value |-> v] ELSE entries[i]]
  ELSE Append(entries, [key |-> k, value |-> v])

\* MMKV.decodeString(k, null)
decodeString(entries, k) ==
  IF containsKey(entries, k)
  THEN Str((CHOOSE e \in {entries[i] : i \in DOMAIN entries} : e.key = k).value)
  ELSE Null

\* MMKV.removeValuesForKeys(ks)
removeKeys(entries, ks) ==
  SelectSeq(entries, LAMBDA e : ~\E i \in DOMAIN ks : ks[i] = e.key)

\* String.startsWith
StartsWith(text, prefix) ==
  Len(text) >= Len(prefix) /\ SubSeq(text, 1, Len(prefix)) = prefix

\* namespace == null || namespace.isEmpty()
NoNamespace(namespace) == namespace.t # "str" \/ namespace.v = <<>>

\* CapacitorMMKV.setString
setString(m, key, value, mmkvId, namespace) ==
  [m EXCEPT ![getMMKVInstance(mmkvId)] = encode(@, getNamespacedKey(key, namespace), value)]

\* CapacitorMMKV.getString
getString(m, key, mmkvId, namespace) ==
  decodeString(m[getMMKVInstance(mmkvId)], getNamespacedKey(key, namespace))

\* CapacitorMMKV.removeValueForKey
removeValueForKey(m, key, mmkvId, namespace) ==
  [m EXCEPT ![getMMKVInstance(mmkvId)] =
     removeKeys(@, <<getNamespacedKey(key, namespace)>>)]

\* CapacitorMMKV.removeValuesForKeys
removeValuesForKeys(m, keys, mmkvId, namespace) ==
  IF NoNamespace(namespace)
  THEN [m EXCEPT ![getMMKVInstance(mmkvId)] = removeKeys(@, keys)]
  ELSE [m EXCEPT ![getMMKVInstance(mmkvId)] =
          removeKeys(@, [i \in DOMAIN keys |-> getNamespacedKey(keys[i], namespace)])]

\* CapacitorMMKV.getAllKeys
getAllKeys(m, mmkvId, namespace) ==
  LET all == allKeys(m[getMMKVInstance(mmkvId)])
      prefix == namespace.v \o <<":">>
      kept == SelectSeq(all, LAMBDA key : StartsWith(key, prefix))
  IN IF NoNamespace(namespace) THEN all
     ELSE [i \in DOMAIN kept |-> SubSeq(kept[i], Len(prefix) + 1, Len(kept[i]))]

\* CapacitorMMKV.contains
contains(m, key, mmkvId, namespace) ==
  containsKey(m[getMMKVInstance(mmkvId)], getNamespacedKey(key, namespace))

\* CapacitorMMKV.count
count(m, mmkvId, namespace) ==
  LET all == allKeys(m[getMMKVInstance(mmkvId)])
      prefix == namespace.v \o <<":">>
  IN IF NoNamespace(namespace) THEN Len(all)
     ELSE Len(SelectSeq(all, LAMBDA key : StartsWith(key, prefix)))

\* CapacitorMMKV.clearAll
clearAll(m, mmkvId, namespace) ==
  IF NoNamespace(namespace) THEN [m EXCEPT ![getMMKVInstance(mmkvId)] = <<>>]
  ELSE LET namespacedKeys == getAllKeys(m, mmkvId, namespace)
       IN IF Len(namespacedKeys) > 0
          THEN removeValuesForKeys(m, namespacedKeys, mmkvId, namespace)
          ELSE m

\* the namespace a call names: none for null and for the empty string
NamespaceOf(namespace) == IF NoNamespace(namespace) THEN <<>> ELSE namespace.v

\* what a call stored or removed, as the caller addressed it
Addressed(key, mmkvId, namespace) ==
  [inst |-> getMMKVInstance(mmkvId), namespace |-> NamespaceOf(namespace), key |-> key]

\* the record of a writing call, and of a reading call with its result;
\* n counts the writing calls
Wrote(op, key, value, mmkvId, namespace) ==
  [n |-> nativeOut.n + 1, op |-> op, result |-> Undefined,
   mmkvId |-> IF mmkvId = Str(<<>>) THEN Undefined ELSE mmkvId,
   namespace |-> IF namespace = Str(<<>>) THEN Undefined ELSE namespace,
   key |-> key, value |-> value]
Read(op, result) == [NoCall EXCEPT !.n = nativeOut.n, !.op = op, !.result = result]

SetString(key, value, mmkvId, namespace) ==
  /\ nativeOut.n < MaxEngineOps
  /\ mmkv' = setString(mmkv, key, value, mmkvId, namespace)
  /\ under' = under \cup {Addressed(key, mmkvId, namespace)}
  /\ nativeOut' = Wrote("setString", key, value, mmkvId, namespace)
  /\ UNCHANGED engineFrame

RemoveValueForKey(key, mmkvId, namespace) ==
  /\ nativeOut.n < MaxEngineOps
  /\ mmkv' = removeValueForKey(mmkv, key, mmkvId, namespace)
  /\ under' = under \ {Addressed(key, mmkvId, namespace)}
  /\ nativeOut' = Wrote("removeValueForKey", key, <<>>, mmkvId, namespace)
  /\ UNCHANGED engineFrame

ClearAll(mmkvId, namespace) ==
  /\ nativeOut.n < MaxEngineOps
  /\ mmkv' = clearAll(mmkv, mmkvId, namespace)
  /\ under' = {u \in under :
                 \/ u.inst # getMMKVInstance(mmkvId)
                 \/ ~NoNamespace(namespace) /\ u.namespace # namespace.v}
  /\ nativeOut' = Wrote("clearAll", <<>>, <<>>, mmkvId, namespace)
  /\ UNCHANGED engineFrame

GetString(key, mmkvId, namespace) ==
  /\ nativeOut' = Read("getString", getString(mmkv, key, mmkvId, namespace))
  /\ UNCHANGED <<mmkv, under>>
  /\ UNCHANGED engineFrame

GetAllKeys(mmkvId, namespace) ==
  /\ nativeOut' = Read("getAllKeys", getAllKeys(mmkv, mmkvId, namespace))
  /\ UNCHANGED <<mmkv, under>>
  /\ UNCHANGED engineFrame

Contains(key, mmkvId, namespace) ==
  /\ nativeOut' = Read("contains", contains(mmkv, key, mmkvId, namespace))
  /\ UNCHANGED <<mmkv, under>>
  /\ UNCHANGED engineFrame

Count(mmkvId, namespace) ==
  /\ nativeOut' = Read("count", count(mmkv, mmkvId, namespace))
  /\ UNCHANGED <<mmkv, under>>
  /\ UNCHANGED engineFrame

EngineNext ==
  \E t \in EngineTargets :
   LET mmkvId == t[1]
       namespace == t[2]
   IN
    \/ \E key \in EngineKeys, value \in EngineValues :
         SetString(key, value, mmkvId, namespace)
    \/ \E key \in EngineKeys : RemoveValueForKey(key, mmkvId, namespace)
    \/ ClearAll(mmkvId, namespace)
    \/ \E key \in EngineKeys : GetString(key, mmkvId, namespace)
    \/ GetAllKeys(mmkvId, namespace)
    \/ \E key \in EngineKeys : Contains(key, mmkvId, namespace)
    \/ Count(mmkvId, namespace)

\* what earlier runs of the app may have left in the files: nothing, or
\* 'k' stored under namespace 'm' in the default instance and 'k' stored
\* in the instance 'a'
LeftBehind ==
  {[mmkvId |-> Undefined, namespace |-> Str(<<"m">>), key |-> <<"k">>, value |-> <<"v">>],
   [mmkvId |-> Str(<<"a">>), namespace |-> Undefined, key |-> <<"k">>, value |-> <<"w">>]}

RECURSIVE setEach(_, _)
setEach(m, calls) ==
  IF calls = {} THEN m
  ELSE LET c == CHOOSE x \in calls : x.mmkvId = Undefined \/ Cardinality(calls) = 1
       IN setEach(setString(m, c.key, c.value, c.mmkvId, c.namespace), calls \ {c})

EngineSpecInit ==
  /\ StoreUnused
  /\ ConvIdle
  /\ SubjectInit
  /\ LoggerInit
  /\ ScopeInit
  /\ nativeOut = NoCall
  /\ \E calls \in {{}, LeftBehind} :
       /\ mmkv = setEach([i \in EngineInstances |-> <<>>], calls)
       /\ under = {Addressed(c.key, c.mmkvId, c.namespace) : c \in calls}

EngineSpec == EngineSpecInit /\ [][EngineNext]_vars

(* ------------- SimpleSubject with observers that unsubscribe ----------- *)
\* observers whose next callback calls unsubscribe() on a handle: their own,
\* the one the first subscribe call returned, or the one the latest returned
ReentrantPool == {"full", "nextOnly", "dropsSelf", "dropsFirst", "dropsLast"}

\* the handles observer o unsubscribes inside its next callback
Drops(o, subs) ==
  CASE o = "dropsSelf" -> {s \in 1..Len(subs) : subs[s].observer = o /\ subs[s].registered}
    [] o = "dropsFirst" -> {s \in 1..Len(subs) : s = 1}
    [] o = "dropsLast" -> {s \in 1..Len(subs) : s = Len(subs)}
    [] OTHER -> {}

\* handle.unsubscribe() for each handle of ss, on the array os and the
\* handles subs: SimpleSubscription.unsubscribe and the closure it runs
RECURSIVE unsubscribeEach(_, _, _)
unsubscribeEach(os, subs, ss) ==
  IF ss = {} THEN [observers |-> os, subscriptions |-> subs]
  ELSE LET h == CHOOSE x \in ss : \A y \in ss : x <= y
           runs == unsubscribeRuns(subs[h].isUnsubscribed) /\ subs[h].registered
       IN unsubscribeEach(IF runs THEN RemoveObserver(os, subs[h].observer) ELSE os,
                          [subs EXCEPT ![h].isUnsubscribed = TRUE], ss \ {h})

\* this.observers.forEach(...) of SimpleSubject.next on the live array: the
\* indexes 1..len fixed when the loop starts, an index past the present
\* end of the array being skipped; st is [observers, subscriptions, calls]
RECURSIVE forEachLive(_, _, _, _, _)
forEachLive(st, k, len, value, n) ==
  IF k > len THEN st
  ELSE IF k > Len(st.observers) THEN forEachLive(st, k + 1, len, value, n)
  ELSE LET o == st.observers[k]
           after == unsubscribeEach(st.observers, st.subscriptions, Drops(o, st.subscriptions))
       IN IF Callbacks(o).next = "absent" THEN forEachLive(st, k + 1, len, value, n)
          ELSE forEachLive([observers |-> after.observers,
                            subscriptions |-> after.subscriptions,
                            calls |-> Append(st.calls, Call(o, "next", value, n))],
                           k + 1, len, value, n)

\* subject.next(value) with observers that may unsubscribe during the call
ReentrantNext(value) ==
  LET st == forEachLive([observers |-> observers, subscriptions |-> subscriptions,
                         calls |-> <<>>], 1, Len(observers), value, nEvents + 1)
  IN /\ nEvents < MaxEvents
     /\ nEvents' = nEvents + 1
     /\ raised' = FALSE
     /\ IF isStopped(isCompleted, hasError)
        THEN UNCHANGED <<observers, subscriptions, delivered>>
        ELSE /\ observers' = st.observers
             /\ subscriptions' = st.subscriptions
             /\ delivered' = delivered \o st.calls
     /\ UNCHANGED <<isCompleted, hasError, errorValue>>
     /\ UNCHANGED subjectFrame

ReentrantStep ==
  \/ \E o \in ReentrantPool : Subscribe(o)
  \/ \E s \in 1..MaxSubs : Unsubscribe(s)
  \/ \E v \in NextValues : ReentrantNext(v)

ReentrantSpec == SubjectSpecInit /\ [][ReentrantStep]_vars

(* ------------------------------- claims -------------------------------- *)
\* the setString calls the step puts in flight
NewWrites == writes' \ writes

\* the cell an accessor call returns, read from the cache after the call
Returned(kind, key, options, d) ==
  signalCacheGet(signalCache', getCacheKey(key, EffectiveOptions(kind, options, d)))

SameTriple(a, b) == a.key = b.key /\ a.mmkvId = b.mmkvId /\ a.namespace = b.namespace

\* C1: a hydrate that resolves with a stored value after the caller wrote the
\* cell leaves the cell's value as it was (it does not overwrite the write).
C1_StaleHydrateKeepsWrite ==
  [][\A r \in reads :
       (Loaded(r) /\ r.origin = "hydrate" /\ r.written /\ r.stage = "resolved"
          /\ r.stored # Null)
       => cells'[r.cell].val = cells[r.cell].val]_vars

\* C2: right after set(v), or update(f) with f(current) = v, the cell reads v,
\* whatever reads and writes are outstanding, and the cell already read v when
\* the write's own setString call was made.
C2_WriteVisibleAtOnce ==
  [][/\ \A c \in 1..MaxCells, v \in SetValues :
          Set(c, v) => /\ cells'[c].val = v
                       /\ \A w \in NewWrites : w.visible = v
     /\ \A c \in 1..MaxCells, f \in UpdateFns :
          Update(c, f) => /\ cells'[c].val = ApplyFn(f, cells[c].val)
                          /\ \A w \in NewWrites : w.visible = ApplyFn(f, cells[c].val)]_vars

\* a caller's write is in flight, issued while the cell's hydrate read was
\* (and still is) outstanding, and the cell reads what was written
C2_Witness ==
  \E w \in writes, r \in reads :
    /\ r.cell = w.cell /\ r.origin = "hydrate" /\ r.written
    /\ w.visible = cells[w.cell].val
    /\ cells[w.cell].val \in SetValues

\* C3: with no clearCache in between, two accessor requests with equal
\* (key, mmkvId, namespace) return the same cell.
C3_SameTripleSameCell ==
  \A a, b \in reqLog : SameTriple(a, b) => a.cell = b.cell

\* the same triple was requested twice, got one cell, and that cell's hydrate
\* has not completed
C3_Witness ==
  \E a, b \in reqLog :
    /\ a.created /\ ~b.created /\ SameTriple(a, b) /\ a.cell = b.cell
    /\ \E r \in reads : r.cell = a.cell /\ r.origin = "hydrate"

\* C4: two requests that address different storage locations never get the
\* same cell.
C4_DistinctLocationsDistinctCells ==
  \A a, b \in reqLog :
    Loc(a.key, a.mmkvId, a.namespace) # Loc(b.key, b.mmkvId, b.namespace)
    => a.cell # b.cell

\* C5: with no clearCache in between, an accessor request for a triple that
\* was requested before issues no getString call, and a first request issues
\* at most one.
C5_OneHydratePerTriple ==
  [][\A x \in AccessorCalls :
       Accessor(x[1], x[2], x[3], x[4])
       => /\ Cardinality(reads' \ reads) <= 1
          /\ (\E e \in reqLog : e.key = x[2] /\ e.mmkvId = x[3].mmkvId
                                /\ e.namespace = x[3].namespace)
             => reads' = reads]_vars

\* the same triple was requested twice and one read, still outstanding, was
\* issued for its cell
C5_Witness ==
  \E a, b \in reqLog :
    /\ a # b /\ SameTriple(a, b)
    /\ Cardinality({r \in reads : r.cell = a.cell}) = 1
    /\ nextId = 2

\* the cell's serializer applied to v (a Str, or Thrown): options.serialize,
\* else the text itself for a string and its JSON encoding otherwise
SerializeOf(options, v) ==
  IF options.serialize # "absent" THEN Serialize(options, v)
  ELSE IF v.t = "str" THEN v
  ELSE JsonStringify(v)

\* the step issues exactly one setString, to cell c's own triple, carrying
\* serialize(v)
OneWrite(c, v) ==
  \E w \in NewWrites :
    /\ NewWrites = {w}
    /\ w.key = cells[c].key
    /\ w.mmkvId = cells[c].options.mmkvId
    /\ w.namespace = cells[c].options.namespace
    /\ Str(w.text) = SerializeOf(cells[c].options, v)

\* C6 as stated: every set(v) and update(f) issues exactly one setString, to
\* the cell's own triple, carrying serialize(new value); update(f) is
\* set(f(current)).
C6_EveryWriteIssuesOneSetString ==
  [][/\ \A c \in 1..MaxCells, v \in SetValues : Set(c, v) => OneWrite(c, v)
     /\ \A c \in 1..MaxCells, f \in UpdateFns :
          Update(c, f) => /\ OneWrite(c, ApplyFn(f, cells[c].val))
                          /\ cells'[c].val = ApplyFn(f, cells[c].val)]_vars

\* what a write of v to cell c issues: nothing when the serializer throws on
\* v, else the one setString
WriteOrNone(c, v) ==
  IF SerializeOf(cells[c].options, v) = Thrown THEN NewWrites = {} ELSE OneWrite(c, v)

\* C6 amended: every set(v) and update(f) issues exactly one setString, to the
\* cell's own triple, carrying serialize(new value), unless the serializer
\* throws on the new value, and then it issues none; update(f) is
\* set(f(current)).
C6_WriteIssuesOneSetStringUnlessThrown ==
  [][/\ \A c \in 1..MaxCells, v \in SetValues : Set(c, v) => WriteOrNone(c, v)
     /\ \A c \in 1..MaxCells, f \in UpdateFns :
          Update(c, f) => /\ WriteOrNone(c, ApplyFn(f, cells[c].val))
                          /\ cells'[c].val = ApplyFn(f, cells[c].val)]_vars

\* the call made last is the setString of a caller's write to a namespaced
\* cell, and it carries the serialized value of the cell
C6_Witness ==
  \E w \in writes :
    /\ w.id = nextId - 1
    /\ cells[w.cell].val \in SetValues
    /\ w.namespace = cells[w.cell].options.namespace
    /\ w.namespace # Undefined
    /\ Str(w.text) = SerializeOf(cells[w.cell].options, cells[w.cell].val)

\* C7: a hydrate that finds no stored value leaves the cell as seeded and
\* issues no write; a WithDefault cell holds its default d when created, while
\* the read is served, and after it resolves with nothing.
C7_AbsentValueKeepsSeed ==
  [][/\ \A x \in AccessorCalls :
          (Accessor(x[1], x[2], x[3], x[4]) /\ x[1] \in DefaultAccessors
             /\ Len(cells') > Len(cells))
          => cells'[Len(cells')].val = x[4]
     /\ \A r \in reads : NativeGet(r) => UNCHANGED <<cells, writes>>
     /\ \A r \in reads :
          (Loaded(r) /\ r.stage = "resolved" /\ r.stored = Null)
          => UNCHANGED <<cells, writes, kv>>]_vars

\* one WithDefault cell, its hydrate settled against the empty store, no call
\* but the read ever issued, and the cell holds its default
C7_Witness ==
  /\ Len(cells) = 1
  /\ cells[1].val \in UNION {DefaultArgs(k) : k \in DefaultAccessors}
  /\ kv = EmptyKv
  /\ reads = {} /\ writes = {} /\ nextId = 2

\* C8: a WithDefault accessor never returns a cell that reads null, and a
\* hydrate never makes a cell read null.
C8_WithDefaultNeverNull ==
  [][/\ \A x \in AccessorCalls :
          (Accessor(x[1], x[2], x[3], x[4]) /\ x[1] \in DefaultAccessors)
          => cells'[Returned(x[1], x[2], x[3], x[4])].val # Null
     /\ \A r \in reads :
          (Loaded(r) /\ cells[r.cell].val # Null) => cells'[r.cell].val # Null]_vars

\* the deserializer of read r throws on the stored text
DeserializerThrows(r) ==
  /\ r.stage = "resolved" /\ r.stored # Null
  /\ r.options.deserialize # "absent"
  /\ Deserialize(r.options, r.stored.v) = Thrown

\* C9: no exception or rejection leaves the store: a write whose serializer
\* throws or whose setString is rejected leaves the cell at the value just
\* written, and a read that is rejected or whose deserializer throws leaves
\* the cell as it was.
C9_FailuresAreSwallowed ==
  [][/\ ~escaped'
     /\ \A c \in 1..MaxCells, v \in SetValues : Set(c, v) => cells'[c].val = v
     /\ \A c \in 1..MaxCells, f \in UpdateFns :
          Update(c, f) => cells'[c].val = ApplyFn(f, cells[c].val)
     /\ \A w \in writes : NativeSet(w, FALSE) => UNCHANGED <<cells, kv>>
     /\ \A r \in reads :
          (Loaded(r) /\ (r.stage = "sent" \/ DeserializerThrows(r)))
          => UNCHANGED <<cells, writes>>]_vars

\* a caller wrote 7 to a cell whose serializer throws on it: the cell reads 7
\* (no accessor seeds and no hydrate loads that value), nothing was sent for
\* the cell and nothing escaped
C9_Witness ==
  \E c \in 1..Len(cells) :
    /\ cells[c].val = Num(7)
    /\ SerializeOf(cells[c].options, Num(7)) = Thrown
    /\ \A w \in writes : w.cell # c
    /\ ~escaped

\* what the hydrate of the accessor that created cell c makes of stored text:
\* the deserialized value, or the current value when that is null
CreatingHydrate(c, stored) ==
  LET res == loadValue(cells[c].options, FALSE, stored)
  IN IF res.value # Null THEN res.value ELSE cells[c].val

\* the deserializers the typed accessors build in
BuiltinDeserializers == {"int", "intD", "bool", "boolD", "float", "floatD", "json", "jsonD"}

\* the syncSignal call behind read r was given the deserializer the caller
\* gave the accessor that created the cell (none, for a typed accessor)
SameCallerOptions(r) ==
  IF cells[r.cell].options.deserialize \in BuiltinDeserializers
  THEN r.options.deserialize = "absent"
  ELSE r.options.deserialize = cells[r.cell].options.deserialize

\* C10: syncSignal on a key with no cached cell makes no KV Client call and
\* changes nothing; on a cached cell, a stored value leaves the cell at what
\* the creating accessor's hydrate makes of that text, and no stored value
\* leaves it unchanged.
C10_SyncIsRehydrate ==
  [][/\ \A s \in SyncCalls :
          (SyncSignal(s[1], s[2])
             /\ ~signalCacheHas(signalCache, getCacheKey(s[1], s[2])))
          => UNCHANGED <<kv, signalCache, cells, reads, writes>>
     /\ \A r \in reads :
          (Loaded(r) /\ r.origin = "sync" /\ r.stage = "resolved"
             /\ SameCallerOptions(r))
          => cells'[r.cell].val =
               (IF r.stored = Null THEN cells[r.cell].val
                ELSE CreatingHydrate(r.cell, r.stored))]_vars

\* C11: clearCache empties the cell cache, issues no KV Client call and leaves
\* the stored values, the cells and the calls in flight as they are; the next
\* accessor request, whatever its key, creates a new cell and issues a
\* hydrate read for it.
C11_ClearCacheDropsCellsOnly ==
  [][/\ ClearCache
          => /\ signalCache' = {}
             /\ UNCHANGED <<kv, cells, reads, writes, nextId>>
     /\ \A a \in AccessorCalls :
          (Accessor(a[1], a[2], a[3], a[4]) /\ signalCache = {})
          => /\ Len(cells') = Len(cells) + 1
             /\ signalCacheGet(signalCache', getCacheKey(a[2], a[3])) = Len(cells')
             /\ \E r \in reads' \ reads :
                  /\ r.cell = Len(cells') /\ r.origin = "hydrate"
                  /\ r.key = a[2] /\ r.stage = "sent"]_vars

\* a key was requested, the cache cleared, and the key requested again: two
\* cells exist for one cache key, the cache holds the second, and the second
\* hydrate read is outstanding
C11_Witness ==
  /\ Len(cells) = 2
  /\ cells[1].key = cells[2].key
  /\ getCacheKey(cells[1].key, cells[1].options) = getCacheKey(cells[2].key, cells[2].options)
  /\ signalCache = {[ck |-> getCacheKey(cells[2].key, cells[2].options), cell |-> 2]}
  /\ \E r \in reads : r.cell = 2 /\ r.origin = "hydrate"

\* no getString and no setString of cell c is in flight after the step
SettledAfter(c) ==
  /\ \A r \in reads' : r.cell # c
  /\ \A w \in writes' : w.cell # c

\* after the step, the text stored at cell c's storage key is the serialized
\* value of the cell (where the serializer yields one)
StoredMatchesCell(c) ==
  SerializeOf(cells'[c].options, cells'[c].val) # Thrown
  => kv'[Loc(cells'[c].key, cells'[c].options.mmkvId, cells'[c].options.namespace)]
       = SerializeOf(cells'[c].options, cells'[c].val)

\* C12: when the last outstanding read or write of a cell settles, and a write
\* to the cell was made, the stored text equals the serialized value of the
\* cell, in whatever order the KV Client completed the calls.
C12_SettledStoreMatchesCell ==
  [][/\ \A w \in writes, ok \in BOOLEAN :
          (NativeSet(w, ok) /\ SettledAfter(w.cell)) => StoredMatchesCell(w.cell)
     /\ \A r \in reads :
          (Loaded(r) /\ r.written /\ SettledAfter(r.cell)) => StoredMatchesCell(r.cell)]_vars

\* C13: hydrating an integer cell from the stored text "42" sets it to 42;
\* from "abc" a getInt cell stays as it is and issues no write, and a
\* getIntWithDefault cell takes the caller's default.
C13_IntegerHydration ==
  [][\A r \in reads :
       (Loaded(r) /\ r.origin = "hydrate" /\ r.stage = "resolved"
          /\ r.options.deserialize \in {"int", "intD"})
       => /\ r.stored = Str(<<"4", "2">>) => cells'[r.cell].val = Num(42)
          /\ (r.stored = Str(<<"a", "b", "c">>) /\ r.options.deserialize = "int")
               => UNCHANGED <<cells, writes>>
          /\ (r.stored = Str(<<"a", "b", "c">>) /\ r.options.deserialize = "intD")
               => /\ cells'[r.cell].val = r.options.closureDefault
                  /\ cells'[r.cell].val \in DefaultArgs("getIntWithDefault")]_vars

\* a getInt cell over the stored text "42" has been hydrated to 42
C13_Witness ==
  \E c \in 1..Len(cells) :
    /\ cells[c].options.deserialize = "int"
    /\ cells[c].val = Num(42)
    /\ kv[Loc(cells[c].key, cells[c].options.mmkvId, cells[c].options.namespace)]
         = Str(<<"4", "2">>)
    /\ \A r \in reads : r.cell # c

\* C14: for the integer, boolean, JSON and string accessors, a value written
\* to a cell and read back from the text that was persisted is the value
\* written, 0 and false included; a boolean accessor reads any text other
\* than "true" and "false" as null (getBool) or as its default
\* (getBoolWithDefault).
C14_RoundTrip ==
  /\ conv.op = "roundTrip" => conv.back = conv.value
  /\ (conv.op = "load" /\ conv.kind \in BoolKinds /\ conv.text \notin {TrueText, FalseText})
       => conv.value = (IF conv.kind = "getBool" THEN Null ELSE conv.d)

\* 0 went through a getInt cell: it was persisted as the text "0" and read
\* back as 0
C14_Witness ==
  /\ conv.op = "roundTrip" /\ conv.kind = "getInt"
  /\ conv.value = Num(0) /\ conv.text = <<"0">> /\ conv.back = Num(0)

\* C15: a plain accessor seeds a new cell with options.defaultValue unless
\* that is null or undefined, in which case it seeds null; 0, false and the
\* empty string are kept.
C15_SeedKeepsFalsyDefault ==
  conv.op = "seed"
  => conv.value = (IF conv.defaultValue \in {Null, Undefined} THEN Null
                   ELSE conv.defaultValue)

(* --------------- logger.ts: the log event routers ----------------------- *)
\* MMKVLogLevel values used: Off, Error, Info
LogLevels == {0, 1, 3}
\* the levels of the events the native side emits
EventLevels == {1, 3}
\* caller-supplied predicates on events (config.filter, getFilteredLogs)
Filters == {"errorsOnly"}
FilterHolds(f, level) == IF f = "errorsOnly" THEN level = 1 ELSE TRUE

\* the config argument of enableLogging: omitted, a level only, or a level
\* and a filter
Configs ==
  {[hasLevel |-> FALSE, level |-> 0, filter |-> "absent"],
   [hasLevel |-> TRUE, level |-> 1, filter |-> "absent"],
   [hasLevel |-> TRUE, level |-> 3, filter |-> "errorsOnly"]}

\* new AngularMMKVLogger(); published is the history of logSubject.next calls
\* that reached a live stream, as [n: native event, level]
NewRouter ==
  [isLoggingEnabled |-> FALSE, currentLevel |-> 0, currentFilter |-> "absent",
   capacitorSubscription |-> FALSE, observers |-> <<>>, isCompleted |-> FALSE,
   published |-> <<>>]

\* the part of the state the router code reads and writes
Cur ==
  [routers |-> routers, nativeLevel |-> nativeLevel, listeners |-> listeners,
   lsubs |-> lsubs]

\* the subscription's predicate as it would be if: every event passed
ForwardsAll(sub, level) == TRUE

\* the predicate a subscription applies before it calls its observer's next:
\* none on logs$, event.level === level on getLogsForLevel, filter(event) on
\* getFilteredLogs
Forwards(sub, level) ==
  CASE sub.kind = "logs" -> TRUE
    [] sub.kind = "level" -> level = sub.level
    [] OTHER -> FilterHolds(sub.filter, level)

\* logSubject.next(event): forEach over the observers
RECURSIVE forEachNext(_, _, _, _)
forEachNext(subs, os, n, level) ==
  IF os = <<>> THEN subs
  ELSE LET i == Head(os)
           subs1 == IF Forwards(subs[i], level)
                    THEN [subs EXCEPT ![i].got = Append(@, [n |-> n, level |-> level])]
                    ELSE subs
       IN forEachNext(subs1, Tail(os), n, level)

\* AngularMMKVLogger.handleLogEvent
handleLogEvent(m, r, n, level) ==
  LET router == m.routers[r]
  IN IF router.currentFilter # "absent" /\ ~FilterHolds(router.currentFilter, level)
     THEN m
     ELSE IF router.isCompleted THEN m
     ELSE [m EXCEPT !.routers[r].published = Append(@, [n |-> n, level |-> level]),
                    !.lsubs = forEachNext(m.lsubs, router.observers, n, level)]

\* notifyListeners("mmkvLog", event): every registered callback, in order
RECURSIVE notifyListeners(_, _, _, _)
notifyListeners(m, ls, n, level) ==
  IF ls = <<>> THEN m
  ELSE notifyListeners(handleLogEvent(m, Head(ls), n, level), Tail(ls), n, level)

\* CapacitorMMKV.logMessage
logMessage(m, n, level) ==
  IF level <= m.nativeLevel THEN notifyListeners(m, m.listeners, n, level) ELSE m

\* logSubject.complete(): forEach over the observers
RECURSIVE forEachComplete(_, _)
forEachComplete(subs, os) ==
  IF os = <<>> THEN subs
  ELSE LET i == Head(os)
           subs1 == IF subs[i].hasComplete
                    THEN [subs EXCEPT ![i].completes = @ + 1] ELSE subs
       IN forEachComplete(subs1, Tail(os))

\* complete as it would be if: it did nothing
completeNothing(m, r) == m

\* SimpleSubject.complete on the router's logSubject
complete(m, r) ==
  IF m.routers[r].isCompleted THEN m
  ELSE [m EXCEPT !.routers[r].isCompleted = TRUE,
                 !.routers[r].observers = <<>>,
                 !.lsubs = forEachComplete(m.lsubs, m.routers[r].observers)]

\* AngularMMKVLogger.setLevel up to its await
setLevel(m, r, level) ==
  [m EXCEPT !.routers[r].currentLevel = level, !.nativeLevel = level]

\* disableLogging with no test of isLoggingEnabled, up to its first await
disableLoggingUnguarded(m, r) ==
  [m |-> setLevel(m, r, 0), pc |-> "setLevelOff"]

\* disableLogging up to its first await
disableLogging(m, r) ==
  IF ~m.routers[r].isLoggingEnabled THEN [m |-> m, pc |-> "done"]
  ELSE [m |-> setLevel(m, r, 0), pc |-> "setLevelOff"]

\* disableLogging from setLevel's reply to the await of removeAllListeners
disableRemove(m) == [m |-> [m EXCEPT !.listeners = <<>>], pc |-> "removeAll"]

\* disableLogging after removeAllListeners
disableFinish(m, r) ==
  [m EXCEPT !.routers[r].capacitorSubscription = FALSE,
            !.routers[r].currentFilter = "absent",
            !.routers[r].isLoggingEnabled = FALSE]

\* enableLogging from the filter assignment to the await of addListener
enableAdd(m, r, cfg) ==
  [m |-> [m EXCEPT !.routers[r].currentFilter = cfg.filter,
                   !.listeners = Append(@, r)],
   pc |-> "addListener"]

\* enableLogging after its disableLogging, up to the next await
enableConfigure(m, r, cfg) ==
  IF cfg.hasLevel THEN [m |-> setLevel(m, r, cfg.level), pc |-> "setLevel"]
  ELSE enableAdd(m, r, cfg)

\* enableLogging after addListener
enableFinish(m, r) ==
  [m EXCEPT !.routers[r].capacitorSubscription = TRUE,
            !.routers[r].isLoggingEnabled = TRUE]

\* enableLogging up to its first await
enableLogging(m, r, cfg) ==
  LET d == IF m.routers[r].isLoggingEnabled THEN disableLogging(m, r)
           ELSE [m |-> m, pc |-> "done"]
  IN IF d.pc = "done" THEN enableConfigure(d.m, r, cfg) ELSE d

\* destroy up to its first await
destroy(m, r) ==
  LET d == disableLogging(m, r)
  IN IF d.pc = "done" THEN [m |-> complete(d.m, r), pc |-> "done"] ELSE d

\* a suspended call from the reply it awaits to its next await or its end
Resume(m, c) ==
  CASE c.pc = "setLevelOff" -> disableRemove(m)
    [] c.pc = "removeAll" ->
         LET m1 == disableFinish(m, c.r)
         IN IF c.op = "enableLogging" THEN enableConfigure(m1, c.r, c.cfg)
            ELSE IF c.op = "disableLogging" THEN [m |-> m1, pc |-> "done"]
            ELSE [m |-> complete(m1, c.r), pc |-> "done"]
    [] c.pc = "setLevel" -> enableAdd(m, c.r, c.cfg)
    [] OTHER -> [m |-> enableFinish(m, c.r), pc |-> "done"]

\* the router state a step leaves behind
Leaves(m) ==
  /\ routers' = m.routers
  /\ nativeLevel' = m.nativeLevel
  /\ listeners' = m.listeners
  /\ lsubs' = m.lsubs

\* the suspended calls, each marked as having had company
Disturbed(calls) == [i \in DOMAIN calls |-> [calls[i] EXCEPT !.alone = FALSE]]

NoConfig == [hasLevel |-> FALSE, level |-> 0, filter |-> "absent"]

\* a call that ran to its first await (pc) or to its end ("done")
Suspends(op, r, cfg, app, pc) ==
  lcalls' = IF pc = "done" THEN Disturbed(lcalls)
            ELSE Append(Disturbed(lcalls),
                        [op |-> op, r |-> r, pc |-> pc, cfg |-> cfg, app |-> app,
                         alone |-> lcalls = <<>>])

registryVars == <<appLoggers, defaultAppId, handed>>

\* router.enableLogging(cfg)
EnableLogging(r, cfg) ==
  LET res == enableLogging(Cur, r, cfg)
  IN /\ nLogOps < MaxLogOps
     /\ r \in 1..Len(routers)
     /\ nLogOps' = nLogOps + 1
     /\ Leaves(res.m)
     /\ Suspends("enableLogging", r, cfg, "none", res.pc)
     /\ UNCHANGED <<streams, registryVars, nNative>>
     /\ UNCHANGED loggerFrame

\* router.disableLogging()
DisableLogging(r) ==
  LET res == disableLogging(Cur, r)
  IN /\ nLogOps < MaxLogOps
     /\ r \in 1..Len(routers)
     /\ nLogOps' = nLogOps + 1
     /\ Leaves(res.m)
     /\ Suspends("disableLogging", r, NoConfig, "none", res.pc)
     /\ UNCHANGED <<streams, registryVars, nNative>>
     /\ UNCHANGED loggerFrame

\* router.setLevel(level); nothing follows its await
SetLevel(r, level) ==
  /\ nLogOps < MaxLogOps
  /\ r \in 1..Len(routers)
  /\ nLogOps' = nLogOps + 1
  /\ Leaves(setLevel(Cur, r, level))
  /\ lcalls' = Disturbed(lcalls)
  /\ UNCHANGED <<streams, registryVars, nNative>>
  /\ UNCHANGED loggerFrame

\* router.destroy()
Destroy(r) ==
  LET res == destroy(Cur, r)
  IN /\ nLogOps < MaxLogOps
     /\ r \in 1..Len(routers)
     /\ nLogOps' = nLogOps + 1
     /\ Leaves(res.m)
     /\ Suspends("destroy", r, NoConfig, "none", res.pc)
     /\ UNCHANGED <<streams, registryVars, nNative>>
     /\ UNCHANGED loggerFrame

\* the sequence without its i-th element
Without(seq, i) == SubSeq(seq, 1, i - 1) \o SubSeq(seq, i + 1, Len(seq))

\* what the end of a registry call does to appLoggers: delete(appId) after
\* destroyAngularMMKVLogger, clear() once every destroy of
\* destroyAllAngularMMKVLoggers has ended
RegistryAfter(c, rest) ==
  IF c.op = "destroyAngularMMKVLogger" THEN [appLoggers EXCEPT ![c.app] = 0]
  ELSE IF c.op = "destroyAll" /\ ~\E j \in 1..Len(rest) : rest[j].op = "destroyAll"
  THEN [a \in DOMAIN appLoggers |-> 0]
  ELSE appLoggers

\* the native reply a suspended call awaits arrives
ResumeCall(i) ==
  /\ i \in 1..Len(lcalls)
  /\ LET c == lcalls[i]
         res == Resume(Cur, c)
     IN /\ Leaves(res.m)
        /\ IF res.pc = "done"
           THEN /\ lcalls' = Without(lcalls, i)
                /\ appLoggers' = RegistryAfter(c, Without(lcalls, i))
           ELSE /\ lcalls' = [lcalls EXCEPT ![i].pc = res.pc]
                /\ UNCHANGED appLoggers
  /\ UNCHANGED <<streams, defaultAppId, handed, nLogOps, nNative>>
  /\ UNCHANGED loggerFrame

\* the native side emits a log event
NativeEvent(level) ==
  /\ nNative < MaxNative
  /\ nNative' = nNative + 1
  /\ Leaves(logMessage(Cur, nNative + 1, level))
  /\ UNCHANGED <<streams, lcalls, registryVars, nLogOps>>
  /\ UNCHANGED loggerFrame

\* router.getLogsForLevel(level), and the level getters errorLogs$ .. verboseLogs$
GetLogsForLevel(r, level) ==
  /\ Len(streams) < MaxStreams
  /\ r \in 1..Len(routers)
  /\ streams' = Append(streams, [r |-> r, kind |-> "level", level |-> level,
                                 filter |-> "absent"])
  /\ UNCHANGED <<nativeLevel, listeners, routers, lsubs, lcalls, registryVars,
                 nLogOps, nNative>>
  /\ UNCHANGED loggerFrame

\* router.getFilteredLogs(filter)
GetFilteredLogs(r, f) ==
  /\ Len(streams) < MaxStreams
  /\ r \in 1..Len(routers)
  /\ streams' = Append(streams, [r |-> r, kind |-> "filtered", level |-> 0,
                                 filter |-> f])
  /\ UNCHANGED <<nativeLevel, listeners, routers, lsubs, lcalls, registryVars,
                 nLogOps, nNative>>
  /\ UNCHANGED loggerFrame

\* logSubject's subscribeFn for a new observer: an immediate complete, or a
\* push on observers
SubscribeParent(r, sub) ==
  LET id == Len(lsubs) + 1
  IN IF routers[r].isCompleted /\ sub.hasComplete
     THEN /\ lsubs' = Append(lsubs, [sub EXCEPT !.completes = 1])
          /\ UNCHANGED routers
     ELSE /\ lsubs' = Append(lsubs, sub)
          /\ routers' = [routers EXCEPT ![r].observers = Append(@, id)]

NewSub(r, kind, level, f, hasComplete) ==
  [r |-> r, kind |-> kind, level |-> level, filter |-> f, hasComplete |-> hasComplete,
   closed |-> FALSE, got |-> <<>>, completes |-> 0]

\* router.logs$.subscribe(observer)
SubscribeLogs(r, hasComplete) ==
  /\ Len(lsubs) < MaxSubscribers
  /\ r \in 1..Len(routers)
  /\ SubscribeParent(r, NewSub(r, "logs", 0, "absent", hasComplete))
  /\ UNCHANGED <<nativeLevel, listeners, streams, lcalls, registryVars, nLogOps, nNative>>
  /\ UNCHANGED loggerFrame

\* stream.subscribe(observer) on the i-th derived stream: its subscribeFn
\* subscribes a forwarding observer to logs$
SubscribeStream(i, hasComplete) ==
  /\ Len(lsubs) < MaxSubscribers
  /\ i \in 1..Len(streams)
  /\ LET st == streams[i]
     IN SubscribeParent(st.r, NewSub(st.r, st.kind, st.level, st.filter, hasComplete))
  /\ UNCHANGED <<nativeLevel, listeners, streams, lcalls, registryVars, nLogOps, nNative>>
  /\ UNCHANGED loggerFrame

\* unsubscribe() on the handle the i-th subscribe call returned
UnsubscribeLogs(i) ==
  /\ i \in 1..Len(lsubs)
  /\ lsubs' = [lsubs EXCEPT ![i].closed = TRUE]
  /\ routers' =
       IF unsubscribeRuns(lsubs[i].closed)
       THEN [routers EXCEPT ![lsubs[i].r].observers = RemoveObserver(@, i)]
       ELSE routers
  /\ UNCHANGED <<nativeLevel, listeners, streams, lcalls, registryVars, nLogOps, nNative>>
  /\ UNCHANGED loggerFrame

\* two routers constructed, no registry entry
RouterInit ==
  /\ StoreUnused
  /\ ConvIdle
  /\ SubjectInit
  /\ ScopeInit
  /\ EngineInit
  /\ nativeLevel = 0
  /\ listeners = <<>>
  /\ routers = <<NewRouter, NewRouter>>
  /\ lsubs = <<>>
  /\ streams = <<>>
  /\ lcalls = <<>>
  /\ appLoggers = [a \in {"default", "app1"} |-> 0]
  /\ defaultAppId = "default"
  /\ handed = NothingHanded
  /\ nLogOps = 0
  /\ nNative = 0

RouterNext ==
  \/ \E r \in 1..Len(routers), cfg \in Configs : EnableLogging(r, cfg)
  \/ \E r \in 1..Len(routers) : DisableLogging(r)
  \/ \E r \in 1..Len(routers), level \in EventLevels : SetLevel(r, level)
  \/ \E r \in 1..Len(routers) : Destroy(r)
  \/ \E i \in 1..Len(lcalls) : ResumeCall(i)
  \/ \E level \in EventLevels : NativeEvent(level)

RouterSpec == RouterInit /\ [][RouterNext]_vars

\* the appId argument of the registry functions; "" stands for an omitted
\* or empty argument
AppIds == {"default", "app1"}
AppArgs == AppIds \cup {""}

\* appId || defaultAppId
effectiveAppId(appId) == IF appId = "" THEN defaultAppId ELSE appId

\* appLoggers.has as it would be if: no entry were ever found
appLoggersNever(appId) == FALSE

\* appLoggers.has(effectiveAppId)
appLoggersHas(appId) == appLoggers[appId] # 0

\* setAngularAppId(appId)
SetAngularAppId(appId) ==
  /\ defaultAppId' = appId
  /\ handed' = [handed EXCEPT !.n = @ + 1, !.op = "setAngularAppId", !.app = appId,
                              !.router = 0, !.created = FALSE, !.before = 0]
  /\ UNCHANGED <<nativeLevel, listeners, routers, lsubs, streams, lcalls, appLoggers,
                 nLogOps, nNative>>
  /\ UNCHANGED loggerFrame

\* getAngularMMKVLogger(appId)
GetAngularMMKVLogger(appId) ==
  LET eff == effectiveAppId(appId)
      found == appLoggersHas(eff)
      router == IF found THEN appLoggers[eff] ELSE Len(routers) + 1
  IN /\ routers' = IF found THEN routers ELSE Append(routers, NewRouter)
     /\ appLoggers' = [appLoggers EXCEPT ![eff] = router]
     /\ handed' = [n |-> handed.n + 1, op |-> "getAngularMMKVLogger", app |-> eff,
                   router |-> router, created |-> ~found, before |-> handed.last[eff],
                   last |-> [handed.last EXCEPT ![eff] = router]]
     /\ UNCHANGED <<nativeLevel, listeners, lsubs, streams, lcalls, defaultAppId,
                    nLogOps, nNative>>
     /\ UNCHANGED loggerFrame

\* destroyAngularMMKVLogger(appId)
DestroyAngularMMKVLogger(appId) ==
  LET eff == effectiveAppId(appId)
      logger == appLoggers[eff]
      res == destroy(Cur, logger)
  IN /\ handed' = [handed EXCEPT !.n = @ + 1, !.op = "destroyAngularMMKVLogger",
                                 !.app = eff, !.router = logger, !.created = FALSE,
                                 !.before = 0]
     /\ IF logger = 0
        THEN UNCHANGED <<nativeLevel, listeners, routers, lsubs, lcalls, appLoggers>>
        ELSE /\ Leaves(res.m)
             /\ Suspends("destroyAngularMMKVLogger", logger, NoConfig, eff, res.pc)
             /\ appLoggers' = IF res.pc = "done" THEN [appLoggers EXCEPT ![eff] = 0]
                              ELSE appLoggers
     /\ UNCHANGED <<streams, defaultAppId, nLogOps, nNative>>
     /\ UNCHANGED loggerFrame

\* Array.from(appLoggers.values()).map(logger => logger.destroy()): every
\* destroy() up to its first await; st is [m, calls]
RECURSIVE destroyEach(_, _)
destroyEach(st, rs) ==
  IF rs = {} THEN st
  ELSE LET r == CHOOSE x \in rs : \A y \in rs : x <= y
           res == destroy(st.m, r)
           calls == IF res.pc = "done" THEN st.calls
                    ELSE Append(st.calls, [op |-> "destroyAll", r |-> r, pc |-> res.pc,
                                           cfg |-> NoConfig, app |-> "none",
                                           alone |-> FALSE])
       IN destroyEach([m |-> res.m, calls |-> calls], rs \ {r})

\* destroyAllAngularMMKVLoggers(); one such call at a time
DestroyAllAngularMMKVLoggers ==
  LET values == {appLoggers[a] : a \in AppIds} \ {0}
      st == destroyEach([m |-> Cur, calls |-> Disturbed(lcalls)], values)
  IN /\ ~\E i \in 1..Len(lcalls) : lcalls[i].op = "destroyAll"
     /\ handed' = [handed EXCEPT !.n = @ + 1, !.op = "destroyAllAngularMMKVLoggers",
                                 !.app = "", !.router = 0, !.created = FALSE,
                                 !.before = 0]
     /\ Leaves(st.m)
     /\ lcalls' = st.calls
     /\ appLoggers' = IF Len(st.calls) = Len(lcalls) THEN [a \in AppIds |-> 0]
                      ELSE appLoggers
     /\ UNCHANGED <<streams, defaultAppId, nLogOps, nNative>>
     /\ UNCHANGED loggerFrame

\* the operations made so far on the registry and on its routers
RegistryOps == handed.n + nLogOps

\* the registry, and enableLogging on the routers it handed out
RegistryNext ==
  \/ /\ RegistryOps < MaxRegistryOps
     /\ \/ \E appId \in AppArgs : GetAngularMMKVLogger(appId)
        \/ \E appId \in AppArgs : DestroyAngularMMKVLogger(appId)
        \/ DestroyAllAngularMMKVLoggers
        \/ \E appId \in AppIds : SetAngularAppId(appId)
        \/ \E r \in 1..Len(routers) : EnableLogging(r, NoConfig)
  \/ \E i \in 1..Len(lcalls) : ResumeCall(i)

RegistrySpec == Init /\ [][RegistryNext]_vars

\* one router constructed, no registry entry
StreamInit ==
  /\ StoreUnused
  /\ ConvIdle
  /\ SubjectInit
  /\ ScopeInit
  /\ EngineInit
  /\ nativeLevel = 0
  /\ listeners = <<>>
  /\ routers = <<NewRouter>>
  /\ lsubs = <<>>
  /\ streams = <<>>
  /\ lcalls = <<>>
  /\ appLoggers = [a \in {"default", "app1"} |-> 0]
  /\ defaultAppId = "default"
  /\ handed = NothingHanded
  /\ nLogOps = 0
  /\ nNative = 0

\* the operations made so far on the router and its streams
StreamOps ==
  nLogOps + nNative + Len(streams) + Len(lsubs)
    + Cardinality({i \in 1..Len(lsubs) : lsubs[i].closed})

\* enableLogging({level: Info}), with or without a filter
StreamConfigs ==
  {[hasLevel |-> TRUE, level |-> 3, filter |-> "absent"],
   [hasLevel |-> TRUE, level |-> 3, filter |-> "errorsOnly"]}

\* the router, its logs$ and its derived streams
StreamNext ==
  \/ /\ StreamOps < MaxStreamOps
     /\ \/ \E cfg \in StreamConfigs : EnableLogging(1, cfg)
        \/ Destroy(1)
        \/ \E level \in EventLevels : NativeEvent(level)
        \/ \E level \in EventLevels : GetLogsForLevel(1, level)
        \/ \E f \in Filters : GetFilteredLogs(1, f)
        \/ \E hasComplete \in BOOLEAN : SubscribeLogs(1, hasComplete)
        \/ \E i \in 1..Len(streams), hasComplete \in BOOLEAN :
             SubscribeStream(i, hasComplete)
        \/ \E i \in 1..Len(lsubs) : ~lsubs[i].closed /\ UnsubscribeLogs(i)
  \/ \E i \in 1..Len(lsubs) : lsubs[i].closed /\ UnsubscribeLogs(i)
  \/ \E i \in 1..Len(lcalls) : ResumeCall(i)

StreamSpec == StreamInit /\ [][StreamNext]_vars

(* ------------------ index.ts: the scoped store cache -------------------- *)
\* the scope argument of getAngularMMKVStore: not given, or an MMKVStoreScope
NoScope == [given |-> FALSE, mmkvId |-> Undefined, namespace |-> Undefined]
ScopeIds == {Undefined, Str(<<>>), Str(<<"a">>), Str(DefaultText)}
ScopeNamespaces == {Undefined, Str(<<>>), Str(<<"n">>), Str(DefaultText)}
Scopes ==
  {NoScope} \cup {[given |-> TRUE, mmkvId |-> i, namespace |-> n] :
                    i \in ScopeIds, n \in ScopeNamespaces}

\* !scope || (!scope.mmkvId && !scope.namespace)
IsBaseScope(scope) ==
  ~scope.given \/ (~Truthy(scope.mmkvId) /\ ~Truthy(scope.namespace))

\* `${scope.mmkvId || 'default'}:${scope.namespace || 'default'}`
scopeCacheKey(scope) ==
  ToText(OrElse(scope.mmkvId, Str(DefaultText))) \o <<":">>
    \o ToText(OrElse(scope.namespace, Str(DefaultText)))

\* the cache test as it would be if: no entry were ever found
scopedStoreCacheNever(ck) == FALSE

\* scopedStoreCache.has(cacheKey)
scopedStoreCacheHas(ck) == \E x \in scopedStoreCache : x.ck = ck

\* scopedStoreCache.get(cacheKey)
scopedStoreCacheGet(ck) == (CHOOSE x \in scopedStoreCache : x.ck = ck).store

\* the initialization test as it would be if: it never failed
notInitializedNever == FALSE

\* !angularSignalStore
notInitialized == angularSignalStore = 0

\* initializeAngularMMKVStore(signal)
InitializeAngularMMKVStore ==
  /\ gotStore.n < MaxScopeCalls
  /\ stores' = Append(stores, [kind |-> "base", base |-> 0, scope |-> NoScope])
  /\ angularSignalStore' = Len(stores) + 1
  /\ gotStore' = [gotStore EXCEPT !.n = @ + 1, !.threw = FALSE]
  /\ UNCHANGED scopedStoreCache
  /\ UNCHANGED scopeFrame

\* getAngularMMKVStore(scope)
GetAngularMMKVStore(scope) ==
  LET ck == scopeCacheKey(scope)
      served(result) ==
        [gotStore EXCEPT !.n = @ + 1, !.threw = FALSE,
                         !.served = @ \cup {[n |-> gotStore.n + 1, scope |-> scope,
                                              result |-> result,
                                              base |-> angularSignalStore]}]
  IN /\ gotStore.n < MaxScopeCalls
     /\ IF notInitialized
        THEN /\ gotStore' = [gotStore EXCEPT !.n = @ + 1, !.threw = TRUE]
             /\ UNCHANGED <<stores, scopedStoreCache>>
        ELSE IF IsBaseScope(scope)
        THEN /\ gotStore' = served(angularSignalStore)
             /\ UNCHANGED <<stores, scopedStoreCache>>
        ELSE IF scopedStoreCacheHas(ck)
        THEN /\ gotStore' = served(scopedStoreCacheGet(ck))
             /\ UNCHANGED <<stores, scopedStoreCache>>
        ELSE /\ stores' = Append(stores, [kind |-> "scoped", base |-> angularSignalStore,
                                           scope |-> scope])
             /\ scopedStoreCache' =
                  {x \in scopedStoreCache : x.ck # ck}
                    \cup {[ck |-> ck, store |-> Len(stores) + 1]}
             /\ gotStore' = served(Len(stores) + 1)
     /\ UNCHANGED angularSignalStore
     /\ UNCHANGED scopeFrame

ScopeSpecInit ==
  /\ StoreUnused
  /\ ConvIdle
  /\ SubjectInit
  /\ LoggerInit
  /\ ScopeInit
  /\ EngineInit

ScopeNext ==
  \/ InitializeAngularMMKVStore
  \/ \E scope \in Scopes : GetAngularMMKVStore(scope)

ScopeSpec == ScopeSpecInit /\ [][ScopeNext]_vars

\* the callbacks the step invoked
NewCalls == SubSeq(delivered', Len(delivered) + 1, Len(delivered'))

\* value reaching, once each and in array order, the observers of os that
\* have a next callback
RECURSIVE ValueToEach(_, _, _)
ValueToEach(os, value, n) ==
  IF os = <<>> THEN <<>>
  ELSE (IF Callbacks(Head(os)).next # "absent"
        THEN <<Call(Head(os), "next", value, n)>> ELSE <<>>)
       \o ValueToEach(Tail(os), value, n)

IsNextCall(c) == c.cb = "next"

\* the observers of the handles that were returned, registered and not
\* unsubscribed, in the order of their subscribe calls
RECURSIVE LiveObservers(_)
LiveObservers(subs) ==
  IF subs = <<>> THEN <<>>
  ELSE (IF Head(subs).registered /\ Head(subs).returned /\ ~Head(subs).isUnsubscribed
        THEN <<Head(subs).observer>> ELSE <<>>)
       \o LiveObservers(Tail(subs))

\* C16: on a stream that is not terminal, next(v) invokes the next callback
\* of every registered observer exactly once with v, in subscription order,
\* and values reach the observers in the order they were published.
C16_NextReachesEveryObserverInOrder ==
  [][\A v \in NextValues :
       (SubjectNext(v) /\ ~isStopped(isCompleted, hasError))
       => /\ observers = LiveObservers(subscriptions)
          /\ SelectSeq(NewCalls, IsNextCall) = ValueToEach(observers, v, nEvents')
          /\ \A i \in 1..Len(delivered) : delivered[i].n < nEvents']_vars

\* C18: an exception thrown while a value is delivered to one observer does
\* not leave next(), and every observer registered after that one still gets
\* the value.
C18_ObserverErrorsAreIsolated ==
  [][\A v \in NextValues :
       (SubjectNext(v) /\ ~isStopped(isCompleted, hasError))
       => /\ ~raised'
          /\ \A i \in 1..Len(observers) :
               Callbacks(observers[i]).next # "absent"
               => \E j \in 1..Len(NewCalls) :
                    NewCalls[j] = Call(observers[i], "next", v, nEvents')]_vars

\* the observers of os other than o, in order
Others(os, o) == SelectSeq(os, LAMBDA x : x # o)

\* some handle of observer o, among the first Len(subs) handles, is not
\* unsubscribed
HasLiveHandle(subs, o) ==
  \E s \in 1..Len(subs) : subs[s].observer = o /\ ~subs[s].isUnsubscribed

\* C17: the first unsubscribe() of a handle removes its observer and keeps
\* every other observer registered in the same order, a later unsubscribe()
\* of that handle leaves the observer set as it is, and no next, error or
\* complete callback goes to an observer whose handles are all unsubscribed.
C17_UnsubscribeStopsDeliveryOnce ==
  [][/\ \A s \in 1..Len(subscriptions) :
          Unsubscribe(s)
          => LET o == subscriptions[s].observer
             IN  IF subscriptions[s].isUnsubscribed
                 THEN observers' = observers
                 ELSE /\ ~\E i \in 1..Len(observers') : observers'[i] = o
                      /\ Others(observers', o) = Others(observers, o)
                      /\ subscriptions'[s].isUnsubscribed
      /\ \A j \in 1..Len(NewCalls) :
          HasLiveHandle(subscriptions', NewCalls[j].to)]_vars

\* an observer was unsubscribed and got nothing afterwards, while one that
\* subscribed with it got the value published after the unsubscribe
C17_Witness ==
  /\ Len(subscriptions) = 2
  /\ subscriptions[1].isUnsubscribed /\ ~subscriptions[2].isUnsubscribed
  /\ subscriptions[1].observer = "full" /\ subscriptions[2].observer = "nextOnly"
  /\ observers = <<"nextOnly">>
  /\ nEvents = 2
  /\ delivered = <<Call("full", "next", "a", 1), Call("nextOnly", "next", "a", 1),
                   Call("nextOnly", "next", "b", 2)>>

\* the callbacks invoked by error() and complete() calls on the subject
TerminalCalls ==
  SelectSeq(delivered, LAMBDA c : /\ c.n > 0
                                  /\ \/ c.cb = "complete"
                                     \/ c.cb = "error" /\ c.arg # Exception)

\* C19: on a terminal stream a next, error or complete call invokes no
\* callback and changes neither the observers nor the completed and errored
\* state; the terminal callbacks all come from one call, at most one per
\* observer.
C19_TerminalStreamIgnoresCalls ==
  [][/\ (/\ (isCompleted \/ hasError)
          /\ \/ \E v \in NextValues : SubjectNext(v)
             \/ \E err \in ErrorValues : SubjectError(err)
             \/ SubjectComplete)
         => /\ UNCHANGED <<observers, isCompleted, hasError, errorValue,
                           delivered, subscriptions>>
            /\ ~raised'
      /\ \A i, j \in 1..Len(TerminalCalls') :
           /\ TerminalCalls'[i].n = TerminalCalls'[j].n
           /\ TerminalCalls'[i].cb = TerminalCalls'[j].cb
           /\ (i # j => TerminalCalls'[i].to # TerminalCalls'[j].to)]_vars

\* error(e) reached two observers, and a later call found the stream
\* terminal
C19_Witness ==
  /\ hasError /\ ~isCompleted /\ errorValue = "e"
  /\ nEvents = 2
  /\ observers = <<>>
  /\ delivered = <<Call("full", "error", "e", 1), Call("terminalOnly", "error", "e", 1)>>

\* C20: while the stream is completed or errored the observer set is empty,
\* and an observer that subscribes then is told at once if it has the
\* matching callback (complete, or error with the stored error).
C20_TerminalStreamKeepsNoObserver ==
  [][/\ (isCompleted' \/ hasError') => observers' = <<>>
      /\ \A o \in ObserverPool :
           (Subscribe(o) /\ (isCompleted \/ hasError))
           => /\ (hasError /\ Callbacks(o).error # "absent")
                 => NewCalls = <<Call(o, "error", errorValue, 0)>>
              /\ (isCompleted /\ Callbacks(o).complete # "absent")
                 => NewCalls = <<Call(o, "complete", Undefined, 0)>>]_vars

\* C30: once initialized, getAngularMMKVStore calls with equal (mmkvId,
\* namespace) scopes return the same scoped store object, and a call with no
\* scope or an empty scope returns the base store.
C30_SameScopeSameStore ==
  \A x, y \in gotStore.served :
    /\ IsBaseScope(x.scope) => x.result = x.base
    /\ (~IsBaseScope(x.scope) /\ x.scope = y.scope)
       => /\ x.result = y.result
          /\ stores[x.result].kind = "scoped"

\* two calls with one scope were served, and one with no scope
C30_Witness ==
  \E x, y, z \in gotStore.served :
    /\ x.n < y.n /\ y.n < z.n
    /\ x.scope = y.scope /\ x.scope.mmkvId = Str(<<"a">>)
    /\ x.result = y.result
    /\ z.scope = NoScope /\ z.result = angularSignalStore

\* the subscriptions to logs$ or to a derived stream of router r that were
\* not unsubscribed
ActiveSubs(subs, r) == {i \in 1..Len(subs) : subs[i].r = r /\ ~subs[i].closed}

\* the observers registered on router r's logSubject are the active
\* subscriptions, each once
ParentHoldsActive(rs, subs, r) ==
  /\ Len(rs[r].observers) = Cardinality(ActiveSubs(subs, r))
  /\ \A i \in ActiveSubs(subs, r) : \E j \in 1..Len(rs[r].observers) : rs[r].observers[j] = i

\* C21: creating a derived stream registers nothing on logs$; while the
\* stream is not completed, the observers of logs$ are exactly the
\* subscriptions, direct or to a derived stream, that were not unsubscribed,
\* one parent registration each.
C21_DerivedHoldsOneParentSubscription ==
  [][/\ (\/ \E level \in EventLevels : GetLogsForLevel(1, level)
          \/ \E f \in Filters : GetFilteredLogs(1, f))
         => routers' = routers /\ lsubs' = lsubs
      /\ (~routers'[1].isCompleted => ParentHoldsActive(routers', lsubs', 1))]_vars

\* a subscription to logs$ was unsubscribed and one to a derived stream is
\* active
C21_Witness ==
  /\ Len(lsubs) = 2
  /\ lsubs[1].kind = "logs" /\ lsubs[1].closed
  /\ lsubs[2].kind = "level" /\ ~lsubs[2].closed
  /\ routers[1].observers = <<2>>
  /\ ~routers[1].isCompleted

\* the native callbacks of router r among the registered callbacks ls
CallbacksIn(ls, r) == {i \in 1..Len(ls) : ls[i] = r}
CallbacksOf(r) == CallbacksIn(listeners, r)

\* how often native event n was published on router r's logs$
TimesPublished(r, n) ==
  Cardinality({i \in 1..Len(routers[r].published) : routers[r].published[i].n = n})

\* C22: when no enableLogging or disableLogging call is suspended, a router
\* has at most one native log callback registered, and no native event was
\* published twice on its logs$.
C22_OneNativeCallbackPerRouter ==
  \A r \in 1..Len(routers) :
    /\ lcalls = <<>> => Cardinality(CallbacksOf(r)) <= 1
    /\ \A n \in 1..nNative : TimesPublished(r, n) <= 1

\* a step of an enableLogging, disableLogging or destroy call of router a
StepOf(a) ==
  \/ \E cfg \in Configs : EnableLogging(a, cfg)
  \/ DisableLogging(a)
  \/ Destroy(a)
  \/ \E i \in 1..Len(lcalls) : lcalls[i].r = a /\ ResumeCall(i)

\* router b is enabled, holds its native callback and has no call suspended
EnabledAndSettled(b) ==
  /\ routers[b].isLoggingEnabled
  /\ CallbacksOf(b) # {}
  /\ ~\E i \in 1..Len(lcalls) : lcalls[i].r = b

\* C23: a step of an enableLogging, disableLogging or destroy call of one
\* router leaves another router that is enabled as it is: its fields, its
\* native callback, and a native level that lets through the events at or
\* below its threshold.
C23_RoutersAreIsolated ==
  [][\A a, b \in 1..Len(routers) :
       (a # b /\ EnabledAndSettled(b) /\ StepOf(a))
       => /\ routers'[b] = routers[b]
          /\ CallbacksIn(listeners', b) # {}
          /\ (routers[b].currentLevel <= nativeLevel
              => routers[b].currentLevel <= nativeLevel')]_vars

\* the router state the step leaves behind
CurNext ==
  [routers |-> routers', nativeLevel |-> nativeLevel', listeners |-> listeners',
   lsubs |-> lsubs']

C25_PublishedWithinThreshold ==
  [][\A level \in EventLevels :
       NativeEvent(level)
       => \A r \in 1..Len(routers) :
            routers'[r].published # routers[r].published
            => level <= routers[r].currentLevel]_vars

\* the native event of the step reaches a callback of router r, which is
\* enabled and whose stream is not completed
ReachesEnabled(r, level) ==
  /\ routers[r].isLoggingEnabled
  /\ ~routers[r].isCompleted
  /\ CallbacksOf(r) # {}
  /\ level <= nativeLevel

\* C26: a native event that reaches an enabled router is published on its
\* logs$ exactly when the router has no filter or its filter holds of the
\* event; a published event of level L is delivered to every subscriber of
\* logs$ and of the level-L stream, and to no subscriber of another level's
\* stream.
C26_FilterAndLevelStreams ==
  [][\A level \in EventLevels :
       NativeEvent(level)
       => LET isPublished == routers'[1].published # routers[1].published
          IN /\ ReachesEnabled(1, level)
                => (isPublished <=> FilterHolds(routers[1].currentFilter, level))
             /\ \A j \in 1..Len(routers[1].observers) :
                  LET i == routers[1].observers[j]
                      receives == lsubs'[i].got # lsubs[i].got
                  IN /\ lsubs[i].kind = "logs" => (receives <=> isPublished)
                     /\ lsubs[i].kind = "level"
                        => (receives <=> (isPublished /\ lsubs[i].level = level))]_vars

\* with the filter that admits errors only, an Error event was published,
\* reached a subscriber of logs$ and did not reach a subscriber of the Info
\* stream
C26_Witness ==
  /\ routers[1].isLoggingEnabled
  /\ routers[1].currentFilter = "errorsOnly"
  /\ routers[1].published = <<[n |-> 1, level |-> 1]>>
  /\ \E i, j \in 1..Len(lsubs) :
       /\ lsubs[i].kind = "logs" /\ lsubs[i].got = <<[n |-> 1, level |-> 1]>>
       /\ lsubs[j].kind = "level" /\ lsubs[j].level = 3 /\ lsubs[j].got = <<>>
       /\ routers[1].observers = <<i, j>>

\* the step in which a destroy() call of the router ends
DestroyResolves ==
  \/ Destroy(1) /\ Len(lcalls') = Len(lcalls)
  \/ \E i \in 1..Len(lcalls) :
       lcalls[i].op = "destroy" /\ lcalls[i].pc = "removeAll" /\ ResumeCall(i)

\* C27: when destroy() ends the router is disabled and its stream is
\* completed; on a completed stream every subscription of logs$ or of a
\* derived stream that was not unsubscribed and has a complete callback has
\* received complete once, and no later step (a native event, an
\* enableLogging call) gives any subscription a value.
C27_DestroyCompletesEveryStream ==
  [][/\ (DestroyResolves
          => ~routers'[1].isLoggingEnabled /\ routers'[1].isCompleted)
      /\ (routers'[1].isCompleted
          => \A i \in 1..Len(lsubs') :
               /\ lsubs'[i].completes <= 1
               /\ ((~lsubs'[i].closed /\ lsubs'[i].hasComplete)
                   => lsubs'[i].completes = 1))
      /\ (routers[1].isCompleted
          => /\ routers'[1].isCompleted
             /\ routers'[1].published = routers[1].published
             /\ \A i \in 1..Len(lsubs) : lsubs'[i].got = lsubs[i].got)]_vars

\* after destroy() the router was enabled again and a native event was
\* emitted; the subscriber of a derived stream got complete once and no value
C27_Witness ==
  /\ routers[1].isCompleted
  /\ routers[1].isLoggingEnabled
  /\ listeners # <<>>
  /\ nativeLevel = 3
  /\ nNative = 1
  /\ Len(lsubs) = 1
  /\ lsubs[1].kind = "level" /\ lsubs[1].hasComplete /\ ~lsubs[1].closed
  /\ lsubs[1].completes = 1
  /\ lsubs[1].got = <<>>


\* ---------------------------------------------------------------------
\* C28: the registry holds at most one router per appId.  A call of
\* getAngularMMKVLogger(id) returns the router registered for id, which is
\* the one the previous call for id returned, as long as no registry
\* destroy of id has resolved in between; a registered router is replaced
\* by nothing but a removal at the end of a registry destroy, and an appId
\* gains a router only through getAngularMMKVLogger, which then returns an
\* instance never handed out before, disabled, with its stream not
\* completed.

\* this step is a call of getAngularMMKVLogger
IsGetStep == handed'.n = handed.n + 1 /\ handed'.op = "getAngularMMKVLogger"

\* this step ends a registry destroy that removes appId a
EndsRegistryDestroy(a) ==
  \/ /\ handed'.n = handed.n + 1
     /\ handed'.op = "destroyAngularMMKVLogger"
     /\ handed'.app = a
  \/ /\ handed'.n = handed.n + 1
     /\ handed'.op = "destroyAllAngularMMKVLoggers"
  \/ /\ Len(lcalls') < Len(lcalls)
     /\ \E i \in 1..Len(lcalls) :
          /\ lcalls' = Without(lcalls, i)
          /\ \/ lcalls[i].op = "destroyAngularMMKVLogger" /\ lcalls[i].app = a
             \/ lcalls[i].op = "destroyAll"

C28_OneRouterPerAppId ==
  [][/\ IsGetStep =>
          LET a == handed'.app
              got == handed'.router
          IN /\ got # 0
             /\ appLoggers'[a] = got
             /\ (appLoggers[a] # 0 =>
                   got = appLoggers[a] /\ got = handed.last[a] /\ ~handed'.created)
             /\ (appLoggers[a] = 0 =>
                   /\ handed'.created
                   /\ got \notin 1..Len(routers)
                   /\ got \in 1..Len(routers')
                   /\ ~routers'[got].isLoggingEnabled
                   /\ ~routers'[got].isCompleted
                   /\ routers'[got].observers = <<>>)
             /\ \A b \in AppIds \ {a} : appLoggers'[b] = appLoggers[b]
     /\ \A a \in AppIds :
          /\ (appLoggers[a] # 0 /\ appLoggers'[a] # appLoggers[a] =>
                appLoggers'[a] = 0 /\ EndsRegistryDestroy(a))
          /\ (appLoggers[a] = 0 /\ appLoggers'[a] # 0 =>
                IsGetStep /\ handed'.app = a)]_vars

\* a call returned the router the previous call for the same appId returned
C28_WitnessSame ==
  /\ handed.op = "getAngularMMKVLogger"
  /\ ~handed.created
  /\ handed.before = handed.router

\* the first call after a destroy of the appId returned a new instance
C28_Witness ==
  /\ handed.op = "getAngularMMKVLogger"
  /\ handed.created
  /\ handed.before # 0
  /\ handed.router # handed.before
  /\ routers[handed.before].isCompleted
  /\ ~routers[handed.router].isLoggingEnabled
  /\ ~routers[handed.router].isCompleted

\* ---------------------------------------------------------------------
\* C29: whenever a router leaves the registry it is, at that moment,
\* disabled with its stream completed; and when the last destroy() of a
\* destroyAllAngularMMKVLoggers call has ended the registry is empty.

\* this step ends destroyAllAngularMMKVLoggers
EndsDestroyAll ==
  \/ handed'.n = handed.n + 1 /\ handed'.op = "destroyAllAngularMMKVLoggers"
       /\ ~\E i \in 1..Len(lcalls') : lcalls'[i].op = "destroyAll"
  \/ /\ \E i \in 1..Len(lcalls) : lcalls[i].op = "destroyAll"
     /\ ~\E i \in 1..Len(lcalls') : lcalls'[i].op = "destroyAll"

C29_RemovedRoutersAreDestroyed ==
  [][/\ \A a \in AppIds :
          (appLoggers[a] # 0 /\ appLoggers'[a] # appLoggers[a] =>
             /\ routers'[appLoggers[a]].isCompleted
             /\ ~routers'[appLoggers[a]].isLoggingEnabled)
     /\ (EndsDestroyAll => \A a \in AppIds : appLoggers'[a] = 0)]_vars

\* the part of C29 that holds: after destroyAll the registry is empty
C29_EmptyAfterDestroyAll ==
  [][EndsDestroyAll => \A a \in AppIds : appLoggers'[a] = 0]_vars


\* ---------------------------------------------------------------------
\* the (mmkvId, namespace) pair a scope addresses: an absent or empty
\* member addresses the default instance or no namespace
AddressedPair(scope) ==
  [mmkvId |-> IF Truthy(scope.mmkvId) THEN scope.mmkvId ELSE Undefined,
   namespace |-> IF Truthy(scope.namespace) THEN scope.namespace ELSE Undefined]

\* C31: the scoped store a getAngularMMKVStore(scope) call returns applies
\* the mmkvId and namespace of the requested scope, and two calls whose
\* scopes address different (mmkvId, namespace) pairs, the literal
\* 'default' differing from an absent member, get different scoped stores.
C31_ScopedStoreAppliesRequestedScope ==
  \A x, y \in gotStore.served :
    /\ ~IsBaseScope(x.scope)
       => AddressedPair(stores[x.result].scope) = AddressedPair(x.scope)
    /\ (/\ ~IsBaseScope(x.scope)
        /\ ~IsBaseScope(y.scope)
        /\ AddressedPair(x.scope) # AddressedPair(y.scope))
       => x.result # y.result


\* C32: while initializeAngularMMKVStore has not been called, every
\* getAngularMMKVStore call, with or without a scope, throws, returns
\* nothing, creates no store and adds no entry to the scoped-store cache.
C32_ThrowsBeforeInitialization ==
  [][(angularSignalStore = 0 /\ angularSignalStore' = 0 /\ gotStore'.n = gotStore.n + 1)
       => /\ gotStore'.threw
          /\ gotStore'.served = gotStore.served
          /\ stores' = stores /\ stores = <<>>
          /\ scopedStoreCache' = scopedStoreCache /\ scopedStoreCache = {}]_vars

\* two calls were made before initialization and the last one threw
C32_Witness ==
  /\ angularSignalStore = 0
  /\ gotStore.n = 2
  /\ gotStore.threw
  /\ stores = <<>>

\* the base store behind a store: a scoped store keeps the base store it
\* was constructed with
BackingStore(st) == IF stores[st].kind = "base" THEN st ELSE stores[st].base

\* C40: every store a getAngularMMKVStore call returns is backed by the
\* base store of the most recent initializeAngularMMKVStore call made
\* before it, also for a scope first requested before a re-initialization.
C40_BackedByLatestBaseStore ==
  \A x \in gotStore.served : BackingStore(x.result) = x.base


\* ---------------------------------------------------------------------
\* what the completion of read r makes of the stored text it was served
LoadedOf(r) == loadValue(r.options, FALSE, r.stored).value

\* the step issues exactly one setString: the cell's serializer applied to
\* the value read r loaded, addressed to the storage key r was read from
WritesBack(r) ==
  \E w \in NewWrites :
    /\ NewWrites = {w}
    /\ Loc(w.key, w.mmkvId, w.namespace) = Loc(r.key, r.options.mmkvId, r.options.namespace)
    /\ Str(w.text) = SerializeOf(cells[r.cell].options, LoadedOf(r))

\* C37: the completion of a hydrate or of a syncSignal that loaded a value
\* runs the cell's overridden set and so issues exactly one setString, of
\* the re-serialized value, to the storage key that was read; a completion
\* that found nothing stored, or whose deserializer gave null, issues none.
C37_LoadedValueIsWrittenBack ==
  [][\A r \in reads :
       (Loaded(r) /\ r.stage = "resolved")
       => IF r.stored # Null /\ LoadedOf(r) # Null
          THEN WritesBack(r) /\ cells'[r.cell].val = LoadedOf(r)
          ELSE NewWrites = {} /\ cells' = cells]_vars

\* the part of C37 about hydrates
C37_HydrateWritesBack ==
  [][\A r \in reads :
       (Loaded(r) /\ r.stage = "resolved" /\ r.origin = "hydrate")
       => IF r.stored # Null /\ LoadedOf(r) # Null
          THEN WritesBack(r) /\ cells'[r.cell].val = LoadedOf(r)
          ELSE NewWrites = {} /\ cells' = cells]_vars


\* ---------------------------------------------------------------------
\* the cell already cached for what an accessor call x asks for, 0 if none
CachedFor(x) ==
  signalCacheGet(signalCache, getCacheKey(x[2], EffectiveOptions(x[1], x[3], x[4])))

\* C38: an accessor request that finds a cell cached for its key returns
\* that cell, whatever accessor, default or custom (de)serializer it
\* carries, and leaves the cell's value, seed and captured (de)serializer
\* as the first request fixed them: it issues no read and no write, so its
\* own default and (de)serializer reach neither the cell's hydrate nor its
\* persistence; every hydrate read carries the options captured for its
\* cell.
C38_FirstRequestFixesTheCell ==
  [][/\ \A x \in AccessorCalls :
          (Accessor(x[1], x[2], x[3], x[4]) /\ CachedFor(x) # 0)
          => /\ \E e \in reqLog' : e.cell = CachedFor(x) /\ ~e.created
                                   /\ e.key = x[2] /\ e.mmkvId = x[3].mmkvId
             /\ cells' = cells
             /\ reads' = reads
             /\ writes' = writes
     /\ \A r \in reads' :
          r.origin = "hydrate" => r.options = cells'[r.cell].options]_vars


\* the part of C38 that holds: every accessor but getStringWithDefault
C38_ExceptStringWithDefault ==
  [][/\ \A x \in AccessorCalls :
          (Accessor(x[1], x[2], x[3], x[4]) /\ CachedFor(x) # 0
             /\ x[1] # "getStringWithDefault")
          => /\ \E e \in reqLog' : e.cell = CachedFor(x) /\ ~e.created
             /\ cells' = cells
             /\ reads' = reads
             /\ writes' = writes
     /\ \A r \in reads' :
          r.origin = "hydrate" => r.options = cells'[r.cell].options]_vars


\* ---------------------------------------------------------------------
\* how many times the step invoked the next callback of observer o with v
TimesNext(o, v) ==
  Cardinality({i \in 1..Len(NewCalls) :
                 NewCalls[i].to = o /\ NewCalls[i].cb = "next" /\ NewCalls[i].arg = v})

\* C39: during next(v) on a stream that is not terminal, every observer
\* with a next callback that was registered when next(v) began and is
\* still registered when it returns received v exactly once, also when an
\* observer unsubscribed itself or another observer inside its callback.
C39_UnsubscribeInsideNextSkipsNobody ==
  [][\A v \in NextValues :
       (ReentrantNext(v) /\ ~isCompleted /\ ~hasError)
       => \A o \in ReentrantPool :
            (/\ IndexOf(observers, o) # 0
             /\ IndexOf(observers', o) # 0
             /\ Callbacks(o).next # "absent")
            => TimesNext(o, v) = 1]_vars

\* the part of C39 that holds: nobody receives v twice, and an observer
\* unsubscribed before its turn receives nothing
C39_NobodyReceivesTwice ==
  [][\A v \in NextValues :
       ReentrantNext(v) => \A o \in ReentrantPool : TimesNext(o, v) <= 1]_vars


\* ---------------------------------------------------------------------
\* the elements of a sequence
Range(seq) == {seq[i] : i \in DOMAIN seq}

\* C33: a value written with (k, n) is stored under n + ":" + k for a
\* non-empty namespace n, and under k itself for an absent or empty one; a
\* get with the same (k, n) reads it back, and getAllKeys with n, which
\* strips the prefix n + ":", gives back k.
C33_NamespacedKeyRoundTrip ==
  [][(nativeOut'.n = nativeOut.n + 1 /\ nativeOut'.op = "setString")
       => LET c == nativeOut'
              entries == mmkv'[getMMKVInstance(c.mmkvId)]
          IN /\ getString(mmkv', c.key, c.mmkvId, c.namespace) = Str(c.value)
             /\ contains(mmkv', c.key, c.mmkvId, c.namespace)
             /\ c.key \in Range(getAllKeys(mmkv', c.mmkvId, c.namespace))
             /\ \A e \in {Undefined, Str(<<>>)} :
                  c.mmkvId = Undefined
                  => getString(mmkv', c.key, e, c.namespace) = Str(c.value)
             /\ IF c.namespace = Undefined
                THEN /\ decodeString(entries, c.key) = Str(c.value)
                     /\ getString(mmkv', c.key, c.mmkvId, Str(<<>>)) = Str(c.value)
                ELSE decodeString(entries, c.namespace.v \o <<":">> \o c.key)
                       = Str(c.value)]_vars

\* 'w' was written to 'k' under namespace 'n' in the default instance and
\* the last call, a getString, read it back
C33_Witness ==
  /\ nativeOut.op = "getString"
  /\ nativeOut.result = Str(<<"w">>)
  /\ decodeString(mmkv[DefaultInstance], <<"n", ":", "k">>) = Str(<<"w">>)
  /\ Addressed(<<"k">>, Undefined, Str(<<"n">>)) \in under

\* the raw keys stored, and not removed since, under the namespace of
\* target t in its instance
StoredUnder(t) ==
  {u.key : u \in {x \in under : x.inst = getMMKVInstance(t[1])
                                  /\ x.namespace = NamespaceOf(t[2])}}

\* C34: getAllKeys with a namespace n returns, each once and in the
\* engine's order, exactly the raw keys that were stored under n, and
\* count with n is the length of that list; without a namespace both
\* give the engine's own result.
C34_ListsExactlyTheNamespace ==
  \A t \in EngineTargets :
    LET keys == getAllKeys(mmkv, t[1], t[2])
        all == allKeys(mmkv[getMMKVInstance(t[1])])
    IN /\ count(mmkv, t[1], t[2]) = Len(keys)
       /\ IF NoNamespace(t[2]) THEN keys = all
          ELSE /\ Range(keys) = StoredUnder(t)
               /\ Cardinality(Range(keys)) = Len(keys)

\* the part of C34 that holds: the list is the engine's keys that start
\* with n + ":", in the engine's order, with the prefix stripped
C34_ListsThePrefixedKeys ==
  \A t \in EngineTargets :
    LET keys == getAllKeys(mmkv, t[1], t[2])
        all == allKeys(mmkv[getMMKVInstance(t[1])])
        prefixed == SelectSeq(all, LAMBDA key : StartsWith(key, NamespaceOf(t[2]) \o <<":">>))
    IN /\ count(mmkv, t[1], t[2]) = Len(keys)
       /\ IF NoNamespace(t[2]) THEN keys = all
          ELSE /\ Len(keys) = Len(prefixed)
               /\ \A i \in DOMAIN keys : NamespaceOf(t[2]) \o <<":">> \o keys[i] = prefixed[i]

\* C35: clearAll with a namespace n leaves count(n) at 0 and leaves every
\* key stored under another namespace or under no namespace in that
\* instance, and every other instance, as it was; clearAll without a
\* namespace empties the instance.
C35_ClearAllClearsOneNamespace ==
  [][(nativeOut'.n = nativeOut.n + 1 /\ nativeOut'.op = "clearAll")
       => LET c == nativeOut'
              inst == getMMKVInstance(c.mmkvId)
          IN /\ \A other \in EngineInstances \ {inst} : mmkv'[other] = mmkv[other]
             /\ IF c.namespace = Undefined THEN mmkv'[inst] = <<>>
                ELSE /\ count(mmkv', c.mmkvId, c.namespace) = 0
                     /\ \A u \in under :
                          (u.inst = inst /\ u.namespace # c.namespace.v)
                          => LET skey == IF u.namespace = <<>> THEN u.key
                                         ELSE u.namespace \o <<":">> \o u.key
                             IN decodeString(mmkv'[inst], skey)
                                  = decodeString(mmkv[inst], skey)]_vars

\* the part of C35 that holds: the namespace is empty afterwards, and no
\* entry whose storage key does not start with n + ":" is touched
C35_ClearAllRemovesThePrefix ==
  [][(nativeOut'.n = nativeOut.n + 1 /\ nativeOut'.op = "clearAll")
       => LET c == nativeOut'
              inst == getMMKVInstance(c.mmkvId)
          IN /\ \A other \in EngineInstances \ {inst} : mmkv'[other] = mmkv[other]
             /\ IF c.namespace = Undefined THEN mmkv'[inst] = <<>>
                ELSE /\ count(mmkv', c.mmkvId, c.namespace) = 0
                     /\ mmkv'[inst] =
                          SelectSeq(mmkv[inst],
                                    LAMBDA e : ~StartsWith(e.key, c.namespace.v \o <<":">>))]_vars

\* mmkvIds i and j name one instance: both absent or empty, or equal
SameInstanceId(i, j) ==
  \/ i \in {Undefined, Null, Str(<<>>)} /\ j \in {Undefined, Null, Str(<<>>)}
  \/ i = j

\* what the four reading calls return for target t
Answers(m, t) ==
  [keys |-> getAllKeys(m, t[1], t[2]),
   count |-> count(m, t[1], t[2]),
   values |-> [k \in EngineKeys |-> getString(m, k, t[1], t[2])],
   contains |-> [k \in EngineKeys |-> contains(m, k, t[1], t[2])]]

\* C36: a set, remove or clearAll addressed to mmkvId A changes no answer
\* of get, contains, count or getAllKeys addressed to a different mmkvId
\* B; an absent and an empty mmkvId both address the default instance, and
\* two mmkvIds address one instance only when both are absent or empty or
\* they are equal.
C36_InstancesAreIsolated ==
  /\ \A i, j \in EngineIds \cup {Null, Str(<<"b">>), Str(DefaultText)} :
       (getMMKVInstance(i) = getMMKVInstance(j)) <=> SameInstanceId(i, j)
  /\ getMMKVInstance(Undefined) = DefaultInstance
  /\ getMMKVInstance(Str(<<>>)) = DefaultInstance
  /\ [][nativeOut'.n = nativeOut.n + 1
          => \A t \in EngineTargets :
               ~SameInstanceId(nativeOut'.mmkvId, t[1])
               => Answers(mmkv', t) = Answers(mmkv, t)]_vars

\* the instance 'a' was cleared and the default instance still holds the
\* key stored under namespace 'm'
C36_Witness ==
  /\ nativeOut.op = "clearAll"
  /\ mmkv[getMMKVInstance(Str(<<"a">>))] = <<>>
  /\ Addressed(<<"k">>, Str(<<"a">>), Undefined) \notin under
  /\ getString(mmkv, <<"k">>, Undefined, Str(<<"m">>)) = Str(<<"v">>)

====
